---- MODULE Spec2Model ----
(***************************************************************************)
(* Model of the slide text renderer of ppt-upload2:                        *)
(*   src/src/components/CanvasSlideRenderer.tsx  (preview / high-res)      *)
(*   src/src/components/SlideSelector.tsx        (selection, ZIP export)   *)
(*                                                                         *)
(* Strings are sequences of characters.  A character is a one-letter       *)
(* string; a Hangul syllable is written as its romanisation ("chang" is    *)
(* one character, U+CC3D), so Len(text) is the JavaScript text.length.     *)
(* Lengths on the canvas are integers in 1/100 px, which keeps the         *)
(* factors 1.4 (line height), 0.3 (block gap) and 0.05 (padding) exact.    *)
(***************************************************************************)
EXTENDS Integers, Sequences, FiniteSets, TLC

VARIABLES
    args,              \* arguments of the pure function a specification exercises
    ret,               \* its result, NotRun before the call
    \* SlideSelector's component state (useState, SlideSelector.tsx:187-210)
    slideTextData,     \* per slide index: <<>> or <<the data the server sent>>
    loadingSlides,     \* indices with a fetch in flight
    selectedSlides,    \* selected indices, a sequence
    textBlockColors,   \* manual overrides {slideIndex, blockIndex, color}
    colorPickerModal,  \* <<>> for null, else <<[slideIndex, blockIndex]>>
    isConverting,
    conv,              \* the running convertSelectedSlides call and what it closed over
    renderer,          \* one CanvasSlideRenderer: isRendering, its canvas, the images emitted
    shell,             \* App: file, slideCount, isLoading, slide-info requests in flight
    selector           \* the rest of SlideSelector: textColor, editedSlideData, the loading and preview state

fnVars == <<args, ret>>
appVars == <<slideTextData, loadingSlides, selectedSlides, textBlockColors,
             colorPickerModal, isConverting, conv>>
vars == <<args, ret, slideTextData, loadingSlides, selectedSlides, textBlockColors,
          colorPickerModal, isConverting, conv, renderer, shell, selector>>

NotRun == "not-run"

-----------------------------------------------------------------------------
(* Characters and strings                                                  *)

Space == " "
Newline == "\n"
WhiteSpace == {Space, Newline}
Digits == {"0", "1", "2", "3", "4", "5", "6", "7", "8", "9"}
\* [가-힣]: the Hangul syllables the sample texts use
\* 창 세 기 장 절 태 초 에 사 랑 교 회
Hangul == {"chang", "se", "gi", "jang", "jeol", "tae", "cho", "ey",
           "sa", "rang", "gyo", "hoe"}
UpperSeq == <<"A", "B", "C", "D", "E", "F", "G", "H", "I", "J", "K", "L", "M",
              "N", "O", "P", "Q", "R", "S", "T", "U", "V", "W", "X", "Y", "Z">>
LowerSeq == <<"a", "b", "c", "d", "e", "f", "g", "h", "i", "j", "k", "l", "m",
              "n", "o", "p", "q", "r", "s", "t", "u", "v", "w", "x", "y", "z">>
Range(s) == {s[i] : i \in DOMAIN s}
Latin == Range(UpperSeq) \cup Range(LowerSeq)

\* String.prototype.toLowerCase on one character; the "i" flag of a RegExp
\* compares characters after the same folding.
LowerChar(c) ==
    IF c \in Range(UpperSeq)
    THEN LowerSeq[CHOOSE i \in DOMAIN UpperSeq : UpperSeq[i] = c]
    ELSE c
ToLower(t) == [i \in DOMAIN t |-> LowerChar(t[i])]

RECURSIVE Concat(_)
Concat(ss) == IF ss = <<>> THEN <<>> ELSE Head(ss) \o Concat(Tail(ss))

\* String.prototype.trim
RECURSIVE TrimLeft(_)
TrimLeft(t) ==
    IF t # <<>> /\ Head(t) \in WhiteSpace THEN TrimLeft(Tail(t)) ELSE t
RECURSIVE TrimRight(_)
TrimRight(t) ==
    IF t # <<>> /\ t[Len(t)] \in WhiteSpace
    THEN TrimRight(SubSeq(t, 1, Len(t) - 1)) ELSE t
Trim(t) == TrimRight(TrimLeft(t))

\* String.prototype.split(sep) for a one-character separator: the parts
\* between the separators, "" splits to [""]
Split(t, sep) ==
    LET seps == {i \in DOMAIN t : t[i] = sep}
        \* the position of the k-th separator; 0 and Len(t) + 1 bracket the text
        SepAt(k) ==
            IF k = 0 THEN 0
            ELSE IF k > Cardinality(seps) THEN Len(t) + 1
            ELSE CHOOSE i \in seps : Cardinality({j \in seps : j < i}) = k - 1
    IN  [k \in 1..(Cardinality(seps) + 1) |-> SubSeq(t, SepAt(k - 1) + 1, SepAt(k) - 1)]

\* String.prototype.includes
Includes(t, sub) ==
    \E i \in 1..(Len(t) - Len(sub) + 1) : SubSeq(t, i, i + Len(sub) - 1) = sub

-----------------------------------------------------------------------------
(* detectBibleVerse: the six anchored patterns, as sequences of            *)
(* (character class, quantifier); a match is a set of end positions, so    *)
(* backtracking is covered.                                                *)

One(cls) == [cls |-> cls, q |-> "one"]
Plus(cls) == [cls |-> cls, q |-> "plus"]
Star(cls) == [cls |-> cls, q |-> "star"]

biblePatterns == <<
    <<Plus(Digits), Star(WhiteSpace), One({"jang", "jeol"}), Star(WhiteSpace)>>,
    <<Plus(Hangul), Star(WhiteSpace), Plus(Digits), One({"jang"}),
      Star(WhiteSpace), Plus(Digits), One({"jeol"})>>,
    <<Plus(Hangul), Star(WhiteSpace), Plus(Digits), One({":"}), Plus(Digits)>>,
    <<Plus(Latin), Star(WhiteSpace), Plus(Digits), One({":"}), Plus(Digits)>>,
    <<Plus(Hangul), Star(WhiteSpace), Plus(Hangul), Star(WhiteSpace),
      Plus(Digits), One({"jang"})>>,
    <<Plus(Hangul), Star(WhiteSpace), Plus(Digits), One({":"}), Plus(Digits),
      One({"-"}), Plus(Digits)>> >>

\* positions are the index of the next character to read
StepOne(cls, t, ps) == {p + 1 : p \in {q \in ps : q <= Len(t) /\ t[q] \in cls}}
StepStar(cls, t, ps) ==
    {q \in 1..(Len(t) + 1) :
        \E p \in ps : p <= q /\ \A j \in p..(q - 1) : t[j] \in cls}
StepElem(el, t, ps) ==
    CASE el.q = "one" -> StepOne(el.cls, t, ps)
      [] el.q = "plus" -> StepStar(el.cls, t, StepOne(el.cls, t, ps))
      [] el.q = "star" -> StepStar(el.cls, t, ps)

RECURSIVE MatchEnds(_, _, _)
MatchEnds(re, t, ps) ==
    IF re = <<>> \/ ps = {} THEN ps
    ELSE MatchEnds(Tail(re), t, StepElem(Head(re), t, ps))

\* RegExp.prototype.test of a pattern anchored with ^
RegexTest(re, t) == MatchEnds(re, t, {1}) # {}

\* the patterns tested against the text as given
detectBibleVerse_Untrimmed(text) ==
    \E k \in DOMAIN biblePatterns : RegexTest(biblePatterns[k], text)

detectBibleVerse(text) ==
    \E k \in DOMAIN biblePatterns : RegexTest(biblePatterns[k], Trim(text))

-----------------------------------------------------------------------------
(* CanvasSlideRenderer.getTextBlockColor                                   *)

\* Array.prototype.find: the first element that satisfies the test, or none
FindOverride(list, slideIndex, blockIndex) ==
    SelectSeq(list, LAMBDA p : p.slideIndex = slideIndex /\ p.blockIndex = blockIndex)

getTextBlockColor_VerseFirst(text, blockIndex, slideIndex, cfg) ==
    LET found == FindOverride(cfg.textBlockColors, slideIndex, blockIndex)
    IN  IF cfg.bibleVerseEnabled /\ cfg.bibleVerseColor # "" /\ detectBibleVerse(text)
        THEN cfg.bibleVerseColor
        ELSE IF found # <<>> THEN found[1].color
        ELSE cfg.textColor

\* slideIndex is slideData.slide_index of the component's slideData prop
getTextBlockColor(text, blockIndex, slideIndex, cfg) ==
    LET found == FindOverride(cfg.textBlockColors, slideIndex, blockIndex)
    IN  IF found # <<>> THEN found[1].color
        ELSE IF cfg.bibleVerseEnabled /\ cfg.bibleVerseColor # "" /\ detectBibleVerse(text)
        THEN cfg.bibleVerseColor
        ELSE cfg.textColor

-----------------------------------------------------------------------------
(* CanvasSlideRenderer.processTextWithKeywords                             *)

highlightColors ==
    <<"#ff0000", "#0080ff", "#ffa500", "#800080", "#008000",
      "#ff69b4", "#8b4513", "#4b0082", "#ff1493", "#00ced1">>

DigitSeq == <<"0", "1", "2", "3", "4", "5", "6", "7", "8", "9">>
DigitValue(c) == (CHOOSE i \in DOMAIN DigitSeq : DigitSeq[i] = c) - 1

\* `${index}`: the decimal digits of a number
RECURSIVE Decimal(_)
Decimal(n) ==
    IF n < 10 THEN <<DigitSeq[n + 1]>>
    ELSE Append(Decimal(n \div 10), DigitSeq[(n % 10) + 1])

\* parseInt of a string of decimal digits
RECURSIVE ParseInt(_)
ParseInt(ds) ==
    IF ds = <<>> THEN 0
    ELSE 10 * ParseInt(SubSeq(ds, 1, Len(ds) - 1)) + DigitValue(ds[Len(ds)])

MarkerPrefix == <<"#", "#", "H", "I", "G", "H", "L", "I", "G", "H", "T", "_">>
MarkerSuffix == <<"#", "#">>
\* `##HIGHLIGHT_${index}##`, index counted from 0
Marker(index) == MarkerPrefix \o Decimal(index) \o MarkerSuffix

\* does the escaped keyword, compiled with the "i" flag, match t at position i
MatchesAt(t, i, keyword) ==
    /\ i + Len(keyword) - 1 <= Len(t)
    /\ ToLower(SubSeq(t, i, i + Len(keyword) - 1)) = ToLower(keyword)

\* the first position >= i where the keyword matches, or 0
NextMatch(t, i, keyword) ==
    LET starts == {j \in i..Len(t) : MatchesAt(t, j, keyword)}
    IN  IF starts = {} THEN 0 ELSE CHOOSE j \in starts : \A m \in starts : j <= m

\* result.replace(regex, replacement) with the "g" flag: every leftmost,
\* non-overlapping match is replaced (keywords are non-empty here)
RECURSIVE ReplaceAll(_, _, _, _)
ReplaceAll(t, i, keyword, replacement) ==
    LET j == NextMatch(t, i, keyword)
    IN  IF j = 0 THEN SubSeq(t, i, Len(t))
        ELSE SubSeq(t, i, j - 1) \o replacement
                 \o ReplaceAll(t, j + Len(keyword), keyword, replacement)

\* highlightKeywords.forEach((keyword, index) => ...), index k-1
RECURSIVE MarkKeywords(_, _, _)
MarkKeywords(result, keywords, k) ==
    IF k > Len(keywords) THEN result
    ELSE LET keyword == keywords[k]
             marker == Marker(k - 1)
         IN  MarkKeywords(
                 IF Trim(keyword) # <<>>
                 THEN ReplaceAll(result, 1, keyword, marker \o keyword \o marker)
                 ELSE result,
                 keywords, k + 1)

\* length of the match of /##HIGHLIGHT_\d+##/ that starts at position i, or 0
MarkerLenAt(t, i) ==
    LET p == Len(MarkerPrefix)
        digitsEnd ==
            CHOOSE e \in (i + p - 1)..Len(t) :
                /\ \A j \in (i + p)..e : t[j] \in Digits
                /\ (e = Len(t) \/ t[e + 1] \notin Digits)
    IN  IF i + p - 1 <= Len(t) /\ SubSeq(t, i, i + p - 1) = MarkerPrefix
        THEN IF /\ digitsEnd >= i + p
                /\ digitsEnd + 2 <= Len(t)
                /\ SubSeq(t, digitsEnd + 1, digitsEnd + 2) = MarkerSuffix
             THEN digitsEnd + 2 - i + 1
             ELSE 0
        ELSE 0

\* the first position >= i where /##HIGHLIGHT_\d+##/ matches, or 0
NextMarker(t, i) ==
    LET starts == {j \in i..Len(t) : MarkerLenAt(t, j) > 0}
    IN  IF starts = {} THEN 0 ELSE CHOOSE j \in starts : \A m \in starts : j <= m

\* result.split(/(##HIGHLIGHT_\d+##)/): text parts and the captured markers
\* alternate; a part is [marker |-> BOOLEAN, text |-> its characters]
RECURSIVE SplitMarkers(_, _)
SplitMarkers(t, i) ==
    LET j == NextMarker(t, i)
    IN  IF j = 0 THEN <<[marker |-> FALSE, text |-> SubSeq(t, i, Len(t))]>>
        ELSE <<[marker |-> FALSE, text |-> SubSeq(t, i, j - 1)],
               [marker |-> TRUE, text |-> SubSeq(t, j, j + MarkerLenAt(t, j) - 1)]>>
             \o SplitMarkers(t, j + MarkerLenAt(t, j))

\* parseInt(highlightMatch[1]) of a marker part
MarkerIndex(m) ==
    ParseInt(SubSeq(m, Len(MarkerPrefix) + 1, Len(m) - Len(MarkerSuffix)))

SegmentColor(idx, textColor) ==
    IF idx >= 0 THEN highlightColors[(idx % Len(highlightColors)) + 1] ELSE textColor

\* for (const part of parts) { ... }
RECURSIVE BuildSegments(_, _, _, _)
BuildSegments(parts, k, currentHighlightIndex, textColor) ==
    IF k > Len(parts) THEN <<>>
    ELSE LET part == parts[k]
         IN  IF part.marker
             THEN BuildSegments(parts, k + 1, MarkerIndex(part.text), textColor)
             ELSE IF part.text # <<>>
             THEN <<[text |-> part.text,
                     color |-> SegmentColor(currentHighlightIndex, textColor),
                     isHighlight |-> currentHighlightIndex >= 0]>>
                  \o BuildSegments(parts, k + 1, -1, textColor)
             ELSE BuildSegments(parts, k + 1, currentHighlightIndex, textColor)

processTextWithKeywords(text, highlightKeywords, textColor) ==
    IF Len(highlightKeywords) = 0
    THEN <<[text |-> text, color |-> textColor, isHighlight |-> FALSE]>>
    ELSE LET result == MarkKeywords(text, highlightKeywords, 1)
             segments == BuildSegments(SplitMarkers(result, 1), 1, -1, textColor)
         IN  IF Len(segments) > 0 THEN segments
             ELSE <<[text |-> text, color |-> textColor, isHighlight |-> FALSE]>>

-----------------------------------------------------------------------------
(* Canvas geometry and text measurement                                    *)

Max(a, b) == IF a >= b THEN a ELSE b
Min(a, b) == IF a <= b THEN a ELSE b

\* renderToCanvas: width and height are the props, in px
PreviewGeometry(width, height) ==
    LET fontSize == Max(1200, Min((width * 100) \div 25, 2000))
        padding == Max(1000, width * 5)
    IN  [width |-> width * 100,
         height |-> height * 100,
         fontSize |-> fontSize,
         font |-> [size |-> fontSize, bold |-> FALSE],   \* ctx.font = `${fontSize}px ...`
         lineHeight |-> (fontSize * 14) \div 10,
         padding |-> padding,
         maxWidth |-> width * 100 - padding * 2]

\* generateHighResImage and convertSelectedSlides: 1280x720, 48px, padding 50
HighResGeometry ==
    [width |-> 128000,
     height |-> 72000,
     fontSize |-> 4800,
     font |-> [size |-> 4800, bold |-> FALSE],           \* tempCtx.font = `${fontSize}px ...`
     lineHeight |-> (4800 * 14) \div 10,
     padding |-> 5000,
     maxWidth |-> 128000 - 5000 * 2]

\* ctx.font: the size in 1/100 px and the weight
Font(size, bold) == [size |-> size, bold |-> bold]

\* ctx.measureText(text).width in the font the context has at the call.
\* The advance of a glyph is the browser's: a Hangul syllable is one em, any
\* other character half an em, and a bold glyph is a tenth of an em wider.
Advance(c, font) ==
    (font.size * ((IF c \in Hangul THEN 10 ELSE 5) + (IF font.bold THEN 1 ELSE 0)))
        \div 10
MeasureText(text, font) ==
    LET wide == Cardinality({i \in DOMAIN text : text[i] \in Hangul})
    IN  wide * Advance("sa", font) + (Len(text) - wide) * Advance(Space, font)

\* one ctx.fillText call group at one y: the runs are drawn left to right
\* from x, each in its own fillStyle and font
PaintedLine(pass, x, y, runs) == [pass |-> pass, x |-> x, y |-> y, runs |-> runs]
Run(text, color, font) == [text |-> text, color |-> color, font |-> font]

\* words[i] + (i < words.length - 1 ? ' ' : '')
WordAt(words, i) == words[i] \o (IF i < Len(words) THEN <<Space>> ELSE <<>>)

-----------------------------------------------------------------------------
(* Block pass: renderToCanvas 167-213, generateHighResImage 350-393,       *)
(* convertSelectedSlides 417-460.  st = [line, y, font, painted]: the      *)
(* current line, the cursor, the font of the context and the lines drawn.  *)

\* for (let i = 0; i < words.length; i++) { ... } of one block
RECURSIVE BlockWords(_, _, _, _, _, _)
BlockWords(words, i, st, blockColor, drawFont, g) ==
    IF i > Len(words) THEN st
    ELSE LET word == WordAt(words, i)
             testLine == st.line \o word
             testWidth == MeasureText(testLine, st.font)
         IN  IF testWidth > g.maxWidth /\ st.line # <<>>
             THEN LET drawn ==
                          [st EXCEPT
                              !.painted = Append(@, PaintedLine("block", g.padding, st.y,
                                              <<Run(st.line, blockColor, drawFont)>>)),
                              !.font = drawFont,
                              !.y = @ + g.lineHeight]
                  IN  IF drawn.y > g.height - g.lineHeight
                      THEN drawn
                      ELSE BlockWords(words, i + 1, [drawn EXCEPT !.line = word],
                                      blockColor, drawFont, g)
             ELSE BlockWords(words, i + 1, [st EXCEPT !.line = testLine],
                             blockColor, drawFont, g)

\* the loop body without the gap that follows a block
BlockBody_NoGap(block, st, blockColor, drawFont, g) ==
    LET after == BlockWords(Split(block.text, Space), 1, [st EXCEPT !.line = <<>>],
                            blockColor, drawFont, g)
    IN  IF after.line # <<>> /\ after.y <= g.height - g.lineHeight
        THEN [after EXCEPT
                 !.painted = Append(@, PaintedLine("block", g.padding, after.y,
                                 <<Run(after.line, blockColor, drawFont)>>)),
                 !.font = drawFont,
                 !.y = @ + g.lineHeight]
        ELSE after

\* the body of the loop over the blocks, for one block
BlockBody(block, st, blockColor, drawFont, g) ==
    LET after == BlockWords(Split(block.text, Space), 1, [st EXCEPT !.line = <<>>],
                            blockColor, drawFont, g)
        last ==
            IF after.line # <<>> /\ after.y <= g.height - g.lineHeight
            THEN [after EXCEPT
                     !.painted = Append(@, PaintedLine("block", g.padding, after.y,
                                     <<Run(after.line, blockColor, drawFont)>>)),
                     !.font = drawFont,
                     !.y = @ + g.lineHeight]
            ELSE after
    IN  [last EXCEPT !.y = @ + (g.lineHeight * 3) \div 10]

\* for (let blockIndex = 0; ...): blockColors[k] is the caller's
\* getTextBlockColor(block.text, k - 1), drawFonts[k] the font its lines are
\* drawn in
RECURSIVE BlockPass(_, _, _, _, _, _)
BlockPass(blocks, k, st, blockColors, drawFonts, g) ==
    IF k > Len(blocks) \/ st.y > g.height - g.lineHeight THEN st
    ELSE BlockPass(blocks, k + 1,
                   BlockBody(blocks[k], st, blockColors[k], drawFonts[k], g),
                   blockColors, drawFonts, g)

-----------------------------------------------------------------------------
(* Fallback pass: renderToCanvas 216-282, generateHighResImage 396-462.    *)
(* st = [text, segs, y, font, painted]: currentLineText,                   *)
(* currentLineSegments, the cursor, the context's font, the lines drawn.   *)

SegFont(seg, g) == Font(g.fontSize, seg.isHighlight)

\* for (const seg of currentLineSegments) { fillText ... }: the context keeps
\* the font of the last run drawn
DrawSegments(st, g) ==
    [st EXCEPT
        !.painted = Append(@, PaintedLine("fallback", g.padding, st.y,
                        [k \in DOMAIN st.segs |->
                            Run(st.segs[k].text, st.segs[k].color, SegFont(st.segs[k], g))])),
        !.font = IF st.segs = <<>> THEN @ ELSE SegFont(st.segs[Len(st.segs)], g),
        !.y = @ + g.lineHeight]

\* the loop over the words of a segment pushing a run for every word
RECURSIVE FallbackWords_NoMerge(_, _, _, _, _)
FallbackWords_NoMerge(words, i, st, segment, g) ==
    IF i > Len(words) THEN st
    ELSE LET word == WordAt(words, i)
             testText == st.text \o word
             testWidth == MeasureText(testText, st.font)
             wordSeg == [text |-> word, color |-> segment.color,
                         isHighlight |-> segment.isHighlight]
         IN  IF testWidth > g.maxWidth /\ st.text # <<>>
             THEN LET drawn == DrawSegments(st, g)
                  IN  IF drawn.y > g.height - g.lineHeight
                      THEN drawn
                      ELSE FallbackWords_NoMerge(words, i + 1,
                               [drawn EXCEPT !.text = word, !.segs = <<wordSeg>>],
                               segment, g)
             ELSE FallbackWords_NoMerge(words, i + 1,
                      [st EXCEPT !.text = testText, !.segs = Append(@, wordSeg)],
                      segment, g)

\* for (let i = 0; i < words.length; i++) { ... } of one segment; the break
\* leaves this loop only
RECURSIVE FallbackWords(_, _, _, _, _)
FallbackWords(words, i, st, segment, g) ==
    IF i > Len(words) THEN st
    ELSE LET word == WordAt(words, i)
             testText == st.text \o word
             testWidth == MeasureText(testText, st.font)
             wordSeg == [text |-> word, color |-> segment.color,
                         isHighlight |-> segment.isHighlight]
             n == Len(st.segs)
         IN  IF testWidth > g.maxWidth /\ st.text # <<>>
             THEN LET drawn == DrawSegments(st, g)
                  IN  IF drawn.y > g.height - g.lineHeight
                      THEN drawn
                      ELSE FallbackWords(words, i + 1,
                               [drawn EXCEPT !.text = word, !.segs = <<wordSeg>>],
                               segment, g)
             ELSE FallbackWords(words, i + 1,
                      [st EXCEPT
                          !.text = testText,
                          !.segs =
                              IF /\ n > 0
                                 /\ st.segs[n].color = segment.color
                                 /\ st.segs[n].isHighlight = segment.isHighlight
                              THEN [@ EXCEPT ![n].text = @ \o word]
                              ELSE Append(@, wordSeg)],
                      segment, g)

\* for (const segment of processedLine) { ... }
RECURSIVE FallbackSegments(_, _, _, _)
FallbackSegments(segments, k, st, g) ==
    IF k > Len(segments) THEN st
    ELSE FallbackSegments(segments, k + 1,
             FallbackWords(Split(segments[k].text, Space), 1, st, segments[k], g), g)

\* the body of the loop over the lines, for one line
FallbackLine(line, st, highlightKeywords, textColor, g) ==
    LET processedLine == processTextWithKeywords(line, highlightKeywords, textColor)
        after == FallbackSegments(processedLine, 1,
                                  [st EXCEPT !.text = <<>>, !.segs = <<>>], g)
    IN  IF Len(after.segs) > 0 /\ after.y <= g.height - g.lineHeight
        THEN DrawSegments(after, g)
        ELSE after

\* for (const line of lines) { if (y > height - lineHeight) break; ... }
RECURSIVE FallbackPass(_, _, _, _, _, _)
FallbackPass(lines, k, st, highlightKeywords, textColor, g) ==
    IF k > Len(lines) \/ st.y > g.height - g.lineHeight THEN st
    ELSE FallbackPass(lines, k + 1,
                      FallbackLine(lines[k], st, highlightKeywords, textColor, g),
                      highlightKeywords, textColor, g)

-----------------------------------------------------------------------------
(* The three rasterizers.  A raster is [pass, painted]: the branch taken   *)
(* and the lines drawn, in order.                                          *)

NoRaster == [pass |-> NotRun, painted |-> <<>>]

SlideLabel(slideData) == <<"S", "l", "i", "d", "e", " ">> \o Decimal(slideData.slide_index + 1)

\* the else branch: ctx.fillText(`Slide ${n}`, width / 2, height / 2 - fontSize)
Placeholder(slideData, textColor, g) ==
    [pass |-> "placeholder",
     painted |-> <<PaintedLine("placeholder", g.width \div 2, g.height \div 2 - g.fontSize,
                       <<Run(SlideLabel(slideData), textColor,
                             Font((g.fontSize * 15) \div 10, FALSE))>>)>>]

\* the branch as the order "blocks, else full text, else placeholder" has it
Rasterize_BlocksFirst(slideData, textColor, highlightKeywords, blockColors, drawFonts, g) ==
    LET start == [y |-> g.padding, font |-> g.font, painted |-> <<>>]
    IN  IF Len(slideData.text_blocks) > 0
        THEN [pass |-> "block",
              painted |-> BlockPass(slideData.text_blocks, 1,
                              start @@ [line |-> <<>>], blockColors, drawFonts, g).painted]
        ELSE IF slideData.full_text # <<>> /\ Trim(slideData.full_text) # <<>>
        THEN [pass |-> "fallback",
              painted |-> FallbackPass(Split(slideData.full_text, Newline), 1,
                              start @@ [text |-> <<>>, segs |-> <<>>],
                              highlightKeywords, textColor, g).painted]
        ELSE Placeholder(slideData, textColor, g)

\* the branch on slideData, the same in renderToCanvas 162-291 and
\* generateHighResImage 345-471
Rasterize(slideData, textColor, highlightKeywords, blockColors, drawFonts, g) ==
    LET start == [y |-> g.padding, font |-> g.font, painted |-> <<>>]
    IN  IF slideData.full_text # <<>> /\ Trim(slideData.full_text) # <<>>
        THEN IF Len(slideData.text_blocks) > 0
             THEN [pass |-> "block",
                   painted |-> BlockPass(slideData.text_blocks, 1,
                                   start @@ [line |-> <<>>], blockColors, drawFonts, g).painted]
             ELSE [pass |-> "fallback",
                   painted |-> FallbackPass(Split(slideData.full_text, Newline), 1,
                                   start @@ [text |-> <<>>, segs |-> <<>>],
                                   highlightKeywords, textColor, g).painted]
        ELSE Placeholder(slideData, textColor, g)

\* getTextBlockColor(block.text, blockIndex) for each block of the slide
RendererBlockColors(slideData, cfg) ==
    [k \in DOMAIN slideData.text_blocks |->
        getTextBlockColor(slideData.text_blocks[k].text, k - 1, slideData.slide_index, cfg)]

\* the drawing of renderToCanvas (162-291) with the geometry and the context
\* font it starts from
PreviewDraw(g, slideData, cfg) ==
    LET \* `${block.font_size || fontSize}px`, bold when block.bold
        drawFonts ==
            [k \in DOMAIN slideData.text_blocks |->
                LET block == slideData.text_blocks[k]
                IN  Font(IF block.font_size # 0 THEN block.font_size * 100 ELSE g.fontSize,
                         block.bold)]
    IN  Rasterize(slideData, cfg.textColor, cfg.highlightKeywords,
                  RendererBlockColors(slideData, cfg), drawFonts, g)

\* CanvasSlideRenderer.renderToCanvas with canvas, context and slideData present
renderToCanvas(slideData, cfg, width, height) ==
    PreviewDraw(PreviewGeometry(width, height), slideData, cfg)

\* `${fontSize}px`, bold when block.bold
HighResFonts(slideData) ==
    [k \in DOMAIN slideData.text_blocks |->
        Font(HighResGeometry.fontSize, slideData.text_blocks[k].bold)]

\* CanvasSlideRenderer.generateHighResImage up to the toBlob call
generateHighResImage(slideData, cfg) ==
    Rasterize(slideData, cfg.textColor, cfg.highlightKeywords,
              RendererBlockColors(slideData, cfg), HighResFonts(slideData), HighResGeometry)

\* The promise an export returns: new Promise((resolve) => toBlob(cb)).
\* encoder records what toBlob handed to the callback.
NoPromise == [state |-> "none", encoder |-> "not-called"]
PendingPromise == [state |-> "pending", encoder |-> "not-called"]
EncoderOutcomes == {"blob", "null"}

\* the callback given to toBlob: resolve(blob) when there is a blob; else it
\* throws, inside the callback and outside the executor, so the promise is
\* neither resolved nor rejected
toBlobCallback(promise, blob) ==
    IF blob # "null"
    THEN [state |-> "fulfilled", encoder |-> blob]
    ELSE [promise EXCEPT !.encoder = blob]

-----------------------------------------------------------------------------
(* SlideSelector: the color lookup and the rasterizer of the ZIP export.   *)
(* app is the component state the call closes over.                        *)

\* colorPickerModal: <<>> for null, else <<[slideIndex, blockIndex]>>
NoModal == <<>>

\* SlideSelector.getTextBlockColor
getTextBlockColorSelector(text, blockIndex, app) ==
    IF app.colorPickerModal = NoModal THEN app.textColor
    ELSE LET found == FindOverride(app.textBlockColors,
                                   app.colorPickerModal[1].slideIndex, blockIndex)
         IN  IF found # <<>> THEN found[1].color
             ELSE IF app.bibleVerseEnabled /\ detectBibleVerse(text)
             THEN app.bibleVerseColor
             ELSE app.textColor

\* highlightKeywords.split(',').map(k => k.trim()).filter(k => k)
ParseKeywords(raw) ==
    LET parts == Split(raw, ",")
    IN  SelectSeq([k \in DOMAIN parts |-> Trim(parts[k])], LAMBDA kw : kw # <<>>)

\* the props SlideSelector hands to every CanvasSlideRenderer
RendererProps(app) ==
    [textColor |-> app.textColor,
     highlightKeywords |-> ParseKeywords(app.highlightKeywords),
     bibleVerseColor |-> app.bibleVerseColor,
     bibleVerseEnabled |-> app.bibleVerseEnabled,
     textBlockColors |-> app.textBlockColors]

\* for (const keyword of highlightKeywords): the characters of the raw input
WordColor(word, app) ==
    IF \E k \in DOMAIN app.highlightKeywords :
           LET keyword == <<app.highlightKeywords[k]>>
           IN  \/ Includes(ToLower(keyword), ToLower(word))
               \/ Includes(ToLower(word), ToLower(keyword))
    THEN "#ff0000"
    ELSE app.textColor

\* the body of the loop over the lines of convertSelectedSlides' fallback
ConvertFallbackLine(line, st, app, g) ==
    LET words == Split(line, Space)
        runs ==
            IF Len(app.highlightKeywords) > 0
            THEN [k \in DOMAIN words |->
                     Run(words[k] \o <<Space>>, WordColor(words[k], app), st.font)]
            ELSE <<Run(line, app.textColor, st.font)>>
    IN  [st EXCEPT
            !.painted = Append(@, PaintedLine("fallback", g.padding, st.y, runs)),
            !.y = @ + g.lineHeight]

RECURSIVE ConvertFallbackPass(_, _, _, _, _)
ConvertFallbackPass(lines, k, st, app, g) ==
    IF k > Len(lines) \/ st.y > g.height - g.lineHeight THEN st
    ELSE ConvertFallbackPass(lines, k + 1, ConvertFallbackLine(lines[k], st, app, g),
                             app, g)

\* the raster convertSelectedSlides draws for one slide, up to the toBlob call
convertSlide(slideData, app) ==
    LET g == HighResGeometry
        start == [y |-> g.padding, font |-> Font(g.fontSize, FALSE), painted |-> <<>>]
        blockColors ==
            [k \in DOMAIN slideData.text_blocks |->
                getTextBlockColorSelector(slideData.text_blocks[k].text, k - 1, app)]
    IN  IF slideData.full_text # <<>> /\ Trim(slideData.full_text) # <<>>
        THEN IF Len(slideData.text_blocks) > 0
             THEN [pass |-> "block",
                   painted |-> BlockPass(slideData.text_blocks, 1,
                                   start @@ [line |-> <<>>], blockColors,
                                   HighResFonts(slideData), g).painted]
             ELSE [pass |-> "fallback",
                   painted |-> ConvertFallbackPass(Split(slideData.full_text, Newline), 1,
                                   start, app, g).painted]
        ELSE Placeholder(slideData, app.textColor, g)

-----------------------------------------------------------------------------
(* SlideSelector: the component state after the first render and its mount *)
(* effect, which calls fetchSlideText for every slide (339-343).           *)

slideCount == 2         \* the slideCount prop: slides 0..slideCount-1

Slides == 0..(slideCount - 1)

NoData == <<>>
\* no convertSelectedSlides call has run yet
ConvIdle ==
    [pc |-> "idle", sortedSlides |-> <<>>, i |-> 0, imageBlobs |-> <<>>,
     canvas |-> <<>>, promise |-> NoPromise, archive |-> <<>>, outcome |-> "none",
     slideTextData |-> <<>>, editedSlideData |-> <<>>, app |-> <<>>]

(* Colors                                                                  *)

DefaultTextColor == "#000000"       \* useState('#000000')
DefaultVerseColor == "#8B0000"      \* useState('#8B0000')
PickedColors == {"#00FF00", "#0000FF"}

\* App before a file is chosen (App.tsx:6-8)
NoFile == "null"
\* pending: the /api/slide-info requests not answered yet, requests: how
\* many were sent
InitShell ==
    shell = [file |-> NoFile, slideCount |-> 0, isLoading |-> FALSE,
             pending |-> {}, requests |-> 0]

\* the font of a fresh 2D context, 10px sans-serif
DefaultFont == [size |-> 1000, bold |-> FALSE]

\* a mounted CanvasSlideRenderer before its first effect: useState(false),
\* a canvas nothing was drawn on, no image handed to onImageGenerated
InitRenderer ==
    renderer = [isRendering |-> FALSE, font |-> DefaultFont, calls |-> <<>>, images |-> <<>>]

\* SlideSelector's remaining state after mount (SlideSelector.tsx:189-206)
\* highlightKeywords is the raw input; rendered holds the values the last
\* render of SlideSelector passed down; effects are the previews whose
\* render effect is scheduled; renderPending: a state update waits for a
\* re-render; inputs counts the user's edits of the settings.
\* slideCount is the prop of the last render; inflight and succeeded count
\* the get-slide-text requests of a slide that are unanswered and that were
\* answered with data, fetches all requests sent; loadEffect: the effect
\* on [file, slideCount] is scheduled, closing over closure (the slides
\* with data and loadingSlides of the render that scheduled it)
RestAtMount ==
    [textColor |-> DefaultTextColor,
     highlightKeywords |-> <<>>,
     rendered |-> [textColor |-> DefaultTextColor, highlightKeywords |-> <<>>],
     slideImages |-> [i \in Slides |-> NoData],
     editedSlideData |-> [i \in Slides |-> NoData],
     editModal |-> NoModal,
     effects |-> {},
     renderPending |-> FALSE,
     inputs |-> 0,
     slideCount |-> 0,
     loadedCount |-> 0,
     inflight |-> [i \in Slides |-> 0],
     succeeded |-> [i \in Slides |-> 0],
     fetches |-> 0,
     loadEffect |-> FALSE,
     closure |-> [slideTextData |-> {}, loadingSlides |-> {}]]
InitRest == selector = RestAtMount

InitSelector ==
    /\ InitShell
    /\ InitRest
    /\ InitRenderer
    /\ slideTextData = [i \in Slides |-> NoData]
    /\ loadingSlides = Slides
    /\ selectedSlides = <<>>
    /\ textBlockColors = <<>>
    /\ colorPickerModal = NoModal
    /\ isConverting = FALSE
    /\ conv = ConvIdle

-----------------------------------------------------------------------------
(* Sample texts                                                            *)

T_Empty == <<>>
T_Gen11 == <<"chang", "se", "gi", " ", "1", ":", "1">>
T_Gen11Taecho == T_Gen11 \o <<" ", "tae", "cho", "ey">>
T_Gen11Lead == <<" ">> \o T_Gen11
T_John316 == <<"J", "o", "h", "n", " ", "3", ":", "1", "6">>
T_JangJeol == <<"1", "jang", " ", "1", "jeol">>
T_Hello == <<"H", "e", "l", "l", "o", " ", "w", "o", "r", "l", "d">>
T_Sarang == <<"sa", "rang">>

ColorTexts ==
    {T_Empty, T_Gen11, T_Gen11Taecho, T_Gen11Lead, T_John316, T_JangJeol,
     T_Hello, T_Sarang}

-----------------------------------------------------------------------------
(* SpecColor: getTextBlockColor over bounded inputs                        *)

MaxSlides == 2          \* slide indices 0..MaxSlides-1
MaxBlocks == 2          \* block indices 0..MaxBlocks-1
MaxOverrides == 2       \* longest override list drawn

SlideIdx == 0..(MaxSlides - 1)
BlockIdx == 0..(MaxBlocks - 1)

OverrideEntries ==
    [slideIndex : SlideIdx, blockIndex : BlockIdx, color : PickedColors]

\* setTextBlockColor keeps at most one entry per (slideIndex, blockIndex)
UniqueKeys(list) ==
    \A i, j \in DOMAIN list :
        (list[i].slideIndex = list[j].slideIndex
            /\ list[i].blockIndex = list[j].blockIndex) => i = j

OverrideLists ==
    {l \in UNION {[1..n -> OverrideEntries] : n \in 0..MaxOverrides} : UniqueKeys(l)}

ColorArgs ==
    [fn : {"getTextBlockColor"},
     text : ColorTexts,
     blockIndex : BlockIdx,
     slideIndex : SlideIdx,
     cfg : [textBlockColors : OverrideLists,
            bibleVerseEnabled : BOOLEAN,
            bibleVerseColor : {DefaultVerseColor},
            textColor : {DefaultTextColor}]]

ResolveColor ==
    /\ args.fn = "getTextBlockColor"
    /\ ret = NotRun
    /\ ret' = getTextBlockColor(args.text, args.blockIndex, args.slideIndex, args.cfg)
    /\ UNCHANGED args
    /\ UNCHANGED appVars
    /\ UNCHANGED <<renderer, shell, selector>>

InitColor == args \in ColorArgs /\ ret = NotRun /\ InitSelector
NextColor == ResolveColor
SpecColor == InitColor /\ [][NextColor]_vars

HasOverride(list, s, b) ==
    \E i \in DOMAIN list : list[i].slideIndex = s /\ list[i].blockIndex = b

\* C1: the resolved block color is the override's color when the list has an
\* entry for exactly (slideIndex, blockIndex), even for verse-like text with
\* detection enabled; otherwise the verse color when detection is enabled and
\* the text is verse-like; otherwise the base text color.
C1_ColorPriority ==
    ret # NotRun =>
        LET l == args.cfg.textBlockColors
            s == args.slideIndex
            b == args.blockIndex
        IN  /\ \A i \in DOMAIN l :
                   (l[i].slideIndex = s /\ l[i].blockIndex = b) => ret = l[i].color
            /\ (~HasOverride(l, s, b) /\ args.cfg.bibleVerseEnabled
                    /\ detectBibleVerse(args.text)) => ret = args.cfg.bibleVerseColor
            /\ (~HasOverride(l, s, b)
                    /\ ~(args.cfg.bibleVerseEnabled /\ detectBibleVerse(args.text)))
                  => ret = args.cfg.textColor

\* an override on a verse-like block with detection enabled has been resolved
C1_Witness ==
    /\ ret \in PickedColors
    /\ args.text = T_Gen11Taecho
    /\ args.cfg.bibleVerseEnabled
    /\ HasOverride(args.cfg.textBlockColors, args.slideIndex, args.blockIndex)
    /\ Len(args.cfg.textBlockColors) = 2

-----------------------------------------------------------------------------
(* SpecHighlight: processTextWithKeywords over bounded inputs              *)

MaxTextLen == 3         \* longest text drawn over HighlightAlphabet
MaxKeywords == 3        \* longest keyword list drawn

K_love == <<"l", "o", "v", "e">>
K_church == <<"c", "h", "u", "r", "c", "h">>
K_a == <<"a">>
K_ab == <<"a", "b">>
K_b == <<"b">>
T_ILoveTheChurch ==
    <<"I", " ">> \o K_love \o <<" ", "t", "h", "e", " ">> \o K_church
T_ILOVEtheChurch ==
    <<"I", " ", "L", "O", "V", "E", " ", "t", "h", "e", " ", "C">>
        \o <<"h", "u", "r", "c", "h">>

HighlightAlphabet == {"a", "A", "b", " "}
HighlightTexts ==
    UNION {[1..n -> HighlightAlphabet] : n \in 0..MaxTextLen}
        \cup {T_ILoveTheChurch, T_ILOVEtheChurch}
\* the callers pass trimmed, non-empty keywords (split(','), trim, filter)
HighlightKeywordPool == {K_love, K_church, K_a, K_ab, K_b}
KeywordLists == UNION {[1..n -> HighlightKeywordPool] : n \in 0..MaxKeywords}

HighlightArgs ==
    [fn : {"processTextWithKeywords"},
     text : HighlightTexts,
     highlightKeywords : KeywordLists,
     textColor : {DefaultTextColor}]

Highlight ==
    /\ args.fn = "processTextWithKeywords"
    /\ ret = NotRun
    /\ ret' = processTextWithKeywords(args.text, args.highlightKeywords, args.textColor)
    /\ UNCHANGED args
    /\ UNCHANGED appVars
    /\ UNCHANGED <<renderer, shell, selector>>

InitHighlight == args \in HighlightArgs /\ ret = NotRun /\ InitSelector
NextHighlight == Highlight
SpecHighlight == InitHighlight /\ [][NextHighlight]_vars

\* the characters of the segments in order, each with its segment's style
RECURSIVE SegmentChars(_)
SegmentChars(segs) ==
    IF segs = <<>> THEN <<>>
    ELSE [i \in 1..Len(Head(segs).text) |->
             [ch |-> Head(segs).text[i], color |-> Head(segs).color,
              isHighlight |-> Head(segs).isHighlight]]
         \o SegmentChars(Tail(segs))

\* position i of text lies inside an occurrence of some keyword, in any case
InKeywordOccurrence(text, keywords, i) ==
    \E k \in DOMAIN keywords :
        \E j \in 1..Len(text) :
            /\ MatchesAt(text, j, keywords[k])
            /\ j <= i /\ i <= j + Len(keywords[k]) - 1

\* C4: for a non-empty keyword list, every character of a keyword occurrence
\* (in any letter case) is returned with isHighlight = TRUE, and every
\* character outside all keyword occurrences with isHighlight = FALSE and
\* the base color.
C4_HighlightMarksExactlyKeywords ==
    (ret # NotRun /\ Len(args.highlightKeywords) > 0) =>
        LET chars == SegmentChars(ret)
        IN  \A i \in 1..Len(args.text) :
                /\ i <= Len(chars)
                /\ IF InKeywordOccurrence(args.text, args.highlightKeywords, i)
                   THEN chars[i].isHighlight
                   ELSE ~chars[i].isHighlight /\ chars[i].color = args.textColor

\* C5: "I love the church" with keywords ["love", "church"] yields, in order,
\* "I" in the base color, "love" in palette[0], the text "the" between the
\* matches in the base color and "church" in palette[1] (the spaces may go
\* with either neighbour).
C5_LoveChurchScenario ==
    (/\ ret # NotRun
     /\ args.text = T_ILoveTheChurch
     /\ args.highlightKeywords = <<K_love, K_church>>) =>
        LET chars == SegmentChars(ret)
            Want(i) == IF i \in 3..6 THEN highlightColors[1]
                       ELSE IF i \in 12..17 THEN highlightColors[2]
                       ELSE args.textColor
        IN  /\ Len(chars) = Len(args.text)
            /\ \A i \in 1..Len(chars) :
                   /\ chars[i].ch = args.text[i]
                   /\ chars[i].ch # Space => chars[i].color = Want(i)

-----------------------------------------------------------------------------
(* SpecRender: the three rasterizers over bounded slides                   *)

MaxRenderBlocks == 2    \* longest list of blocks drawn from BlockPool
ManyBlocks == 8         \* blocks of the slide that overflows the block pass
ShortLines == 7         \* one-character lines ahead of the wrapped line

RECURSIVE Rep(_, _)
Rep(t, n) == IF n = 0 THEN <<>> ELSE t \o Rep(t, n - 1)

RECURSIVE Join(_, _)
Join(ts, sep) ==
    IF ts = <<>> THEN <<>>
    ELSE IF Len(ts) = 1 THEN ts[1]
    ELSE ts[1] \o sep \o Join(Tail(ts), sep)

W8 == <<"tae", "cho", "ey", "tae", "cho", "ey", "tae", "cho">>
T_SarangGyohoe == <<"sa", "rang", " ", "gyo", "hoe", " ", "sa", "rang">>
T_Fits15 == W8 \o <<" ">> \o <<"tae", "cho", "ey", "tae", "cho", "ey">>
T_Wraps == Join(<<W8, W8, W8>>, <<" ">>)
T_TwoLines == T_SarangGyohoe \o <<Newline>> \o <<"tae", "cho", "ey">>
\* two paragraphs with an empty line between them
T_Paragraphs == T_Sarang \o <<Newline, Newline>> \o <<"tae", "cho", "ey">>
\* seven short lines, then a line with two keyword matches that wraps
T_Truncated ==
    Rep(<<"ey", Newline>>, ShortLines)
        \o Join(<<W8, <<"sa", "rang">>, W8, <<"sa", "rang">>, W8>>, <<" ">>)

Block(text, font_size, bold) == [text |-> text, font_size |-> font_size, bold |-> bold]
BlockPool ==
    {Block(T_Gen11Taecho, 16, FALSE), Block(T_SarangGyohoe, 44, FALSE),
     Block(T_Fits15, 0, TRUE), Block(T_Empty, 16, FALSE)}
FallbackTexts ==
    {T_Empty, <<Space>>, T_ILoveTheChurch, T_TwoLines, T_Paragraphs, T_Wraps, T_Truncated}

BlockLists == UNION {[1..n -> BlockPool] : n \in 1..MaxRenderBlocks}

\* full_text is the newline-joined text of the blocks (what the server
\* sends, and what saveEditedText stores for its single block); a slide
\* without blocks carries only full_text
RenderSlides ==
    {[slide_index |-> i, text_blocks |-> bs,
      full_text |-> Join([k \in DOMAIN bs |-> bs[k].text], <<Newline>>)] :
         i \in SlideIdx,
         bs \in BlockLists
             \cup {[k \in 1..ManyBlocks |-> Block(T_Sarang, 16, FALSE)]}}
    \cup {[slide_index |-> i, text_blocks |-> <<>>, full_text |-> ft] :
              i \in SlideIdx, ft \in FallbackTexts}

\* the sizes SlideSelector renders at: thumbnail, edit preview, full screen
PreviewSizes == {<<200, 150>>, <<400, 200>>, <<800, 600>>}

\* the keyword input: empty, and the keywords of the pastel-blue theme
KeywordInputs == {<<>>, <<"sa", "rang", ",", "gyo", "hoe">>, K_love \o <<",", " ">> \o K_church}

\* the color picker: closed, or opened on a slide
PickerStates == {NoModal} \cup {<<[slideIndex |-> s, blockIndex |-> -1]>> : s \in SlideIdx}

\* no override, or one picked for the first block of the first slide
OverrideStates ==
    {<<>>, <<[slideIndex |-> 0, blockIndex |-> 0, color |-> "#00FF00"]>>}

\* the component states a render or an export closes over: every keyword
\* input with the picker untouched, and every picker state without keywords
RenderApps ==
    [textColor : {DefaultTextColor},
     highlightKeywords : KeywordInputs,
     bibleVerseColor : {DefaultVerseColor},
     bibleVerseEnabled : {TRUE},
     textBlockColors : {<<>>},
     colorPickerModal : {NoModal}]
    \cup
    [textColor : {DefaultTextColor},
     highlightKeywords : {<<>>},
     bibleVerseColor : {DefaultVerseColor},
     bibleVerseEnabled : {TRUE},
     textBlockColors : OverrideStates,
     colorPickerModal : PickerStates]

RenderArgs ==
    [fn : {"render"}, slideData : RenderSlides, size : PreviewSizes, app : RenderApps]

\* the preview render taking the blocks off the slide as it draws them
RenderPreview_ConsumesBlocks ==
    /\ args.fn = "render"
    /\ ret.preview = NoRaster
    /\ ret' = [ret EXCEPT !.preview =
                  renderToCanvas(args.slideData, RendererProps(args.app),
                                 args.size[1], args.size[2])]
    /\ args' = [args EXCEPT !.slideData.text_blocks = <<>>]
    /\ UNCHANGED appVars
    /\ UNCHANGED <<renderer, shell, selector>>

RenderPreview ==
    /\ args.fn = "render"
    /\ ret.preview = NoRaster
    /\ ret' = [ret EXCEPT !.preview =
                  renderToCanvas(args.slideData, RendererProps(args.app),
                                 args.size[1], args.size[2])]
    /\ UNCHANGED args
    /\ UNCHANGED appVars
    /\ UNCHANGED <<renderer, shell, selector>>

RenderHighRes ==
    /\ args.fn = "render"
    /\ ret.highRes = NoRaster
    /\ ret' = [ret EXCEPT !.highRes =
                  generateHighResImage(args.slideData, RendererProps(args.app)),
                          !.promise = PendingPromise]
    /\ UNCHANGED args
    /\ UNCHANGED appVars
    /\ UNCHANGED <<renderer, shell, selector>>

\* toBlob calls back, with the encoded image or with null
HighResEncoded ==
    /\ args.fn = "render"
    /\ ret.promise = PendingPromise
    /\ \E blob \in EncoderOutcomes :
           ret' = [ret EXCEPT !.promise = toBlobCallback(@, blob)]
    /\ UNCHANGED args
    /\ UNCHANGED appVars
    /\ UNCHANGED <<renderer, shell, selector>>

RenderZip ==
    /\ args.fn = "render"
    /\ ret.zip = NoRaster
    /\ ret' = [ret EXCEPT !.zip = convertSlide(args.slideData, args.app)]
    /\ UNCHANGED args
    /\ UNCHANGED appVars
    /\ UNCHANGED <<renderer, shell, selector>>

InitRender ==
    /\ args \in RenderArgs
    /\ ret = [preview |-> NoRaster, highRes |-> NoRaster, zip |-> NoRaster,
              promise |-> NoPromise]
    /\ InitSelector
NextRender == RenderPreview \/ RenderHighRes \/ HighResEncoded \/ RenderZip
SpecRender == InitRender /\ [][NextRender]_vars

\* the geometry each raster of ret was drawn with
GeometryOf(which) ==
    IF which = "preview" THEN PreviewGeometry(args.size[1], args.size[2])
    ELSE HighResGeometry
Rasters == {"preview", "highRes", "zip"}

RECURSIVE RunsWidth(_)
RunsWidth(runs) ==
    IF runs = <<>> THEN 0
    ELSE MeasureText(Head(runs).text, Head(runs).font) + RunsWidth(Tail(runs))

LineText(line) == Concat([k \in DOMAIN line.runs |-> line.runs[k].text])

\* one word, with or without the space that followed it
SingleWord(t) ==
    \A i \in DOMAIN t : t[i] = Space => i = Len(t)

WrappedLines(raster) ==
    {k \in DOMAIN raster.painted : raster.painted[k].pass \in {"block", "fallback"}}

\* C6: no line painted by the wrapping loops (block pass and fallback pass,
\* preview and export) is wider than maxWidth, measured in the style it is
\* drawn with, unless it consists of a single word.
C6_LinesFitMaxWidth ==
    \A which \in Rasters :
        \A k \in WrappedLines(ret[which]) :
            LET line == ret[which].painted[k]
            IN  \/ RunsWidth(line.runs) <= GeometryOf(which).maxWidth
                \/ SingleWord(LineText(line))

\* C7: no line is painted at a vertical offset greater than
\* height - lineHeight, in any pass of any render.
C7_NoLineBelowLimit ==
    \A which \in Rasters :
        \A k \in WrappedLines(ret[which]) :
            ret[which].painted[k].y
                <= GeometryOf(which).height - GeometryOf(which).lineHeight

Blank(t) == Trim(t) = <<>>

\* the placeholder: one centered label with the 1-based slide number
IsPlaceholder(raster, g) ==
    /\ raster.pass = "placeholder"
    /\ Len(raster.painted) = 1
    /\ raster.painted[1].pass = "placeholder"
    /\ raster.painted[1].x = g.width \div 2
    /\ LineText(raster.painted[1])
           = <<"S", "l", "i", "d", "e", " ">> \o Decimal(args.slideData.slide_index + 1)

RanOnly(raster, pass) ==
    /\ raster.pass = pass
    /\ \A k \in DOMAIN raster.painted : raster.painted[k].pass = pass

LineColors(raster) ==
    [k \in DOMAIN raster.painted |->
        [j \in DOMAIN raster.painted[k].runs |-> raster.painted[k].runs[j].color]]

\* C2: the block color is the same at every call site: in every state of
\* the color picker (closed, or open on any slide) the ZIP export paints
\* the blocks of a slide in the colors CanvasSlideRenderer paints them.
C2_ExportColorsEqualRendererColors ==
    (ret.zip.pass = "block" /\ ret.highRes.pass = "block")
        => LineColors(ret.zip) = LineColors(ret.highRes)

\* C9: every export settles exactly once: once the encoder has called back,
\* generateHighResImage's promise is fulfilled with the blob it was given,
\* and rejected when it was given none; it does not stay pending.
C9_ExportSettles ==
    ret.promise.encoder # "not-called" =>
        IF ret.promise.encoder = "null"
        THEN ret.promise.state = "rejected"
        ELSE ret.promise.state = "fulfilled"

\* the characters a raster shows, line by line: position, character, color
\* and weight, the spaces left out
LineInk(line) ==
    LET chars == Concat([k \in DOMAIN line.runs |->
                     [i \in DOMAIN line.runs[k].text |->
                         [ch |-> line.runs[k].text[i],
                          color |-> line.runs[k].color,
                          bold |-> line.runs[k].font.bold]]])
    IN  [y |-> line.y, ink |-> SelectSeq(chars, LAMBDA c : c.ch # Space)]
Ink(raster) == [k \in DOMAIN raster.painted |-> LineInk(raster.painted[k])]

\* C10: for a slide with no text blocks and non-blank fullText the ZIP
\* export draws the same wrapped lines with the same runs as the
\* renderer's fallback pass at the same canvas size, font size, padding and
\* keywords.
C10_ZipFallbackEqualsRenderer ==
    (/\ ret.zip # NoRaster
     /\ ret.highRes # NoRaster
     /\ Len(args.slideData.text_blocks) = 0
     /\ ~Blank(args.slideData.full_text))
        => Ink(ret.zip) = Ink(ret.highRes)

-----------------------------------------------------------------------------
(* SpecSelector: SlideSelector's handlers over a deck of slideCount        *)
(* slides.  textColor, bibleVerseColor, bibleVerseEnabled and the keyword  *)
(* input stay at their initial values, and no edit is saved.               *)

PickerColor == "#00FF00"

\* what /api/get-slide-text answers: even slides carry one verse block, odd
\* slides only full_text
ServerData(i) ==
    IF i % 2 = 0
    THEN [slide_index |-> i, text_blocks |-> <<Block(T_Gen11Taecho, 16, FALSE)>>,
          full_text |-> T_Gen11Taecho]
    ELSE [slide_index |-> i, text_blocks |-> <<>>, full_text |-> T_Hello]

\* the state a handler closes over
AppState ==
    [textBlockColors |-> textBlockColors,
     bibleVerseEnabled |-> TRUE,
     bibleVerseColor |-> DefaultVerseColor,
     textColor |-> DefaultTextColor,
     highlightKeywords |-> <<>>,
     colorPickerModal |-> colorPickerModal]

\* fetchSlideText after the await: the answer is stored, finally clears the mark
fetchSlideTextResolved(index) ==
    /\ index \in loadingSlides
    /\ slideTextData' = [slideTextData EXCEPT ![index] = <<ServerData(index)>>]
    /\ loadingSlides' = loadingSlides \ {index}
    /\ UNCHANGED <<selectedSlides, textBlockColors, colorPickerModal, isConverting, conv>>
    /\ UNCHANGED fnVars
    /\ UNCHANGED <<renderer, shell, selector>>

\* fetchSlideText when the request fails: catch logs, finally clears the mark
fetchSlideTextRejected(index) ==
    /\ index \in loadingSlides
    /\ loadingSlides' = loadingSlides \ {index}
    /\ UNCHANGED <<slideTextData, selectedSlides, textBlockColors, colorPickerModal,
                   isConverting, conv>>
    /\ UNCHANGED fnVars
    /\ UNCHANGED <<renderer, shell, selector>>

toggleSlideSelection(index) ==
    /\ selectedSlides' =
           IF \E k \in DOMAIN selectedSlides : selectedSlides[k] = index
           THEN SelectSeq(selectedSlides, LAMBDA i : i # index)
           ELSE SortSeq(Append(selectedSlides, index), LAMBDA a, b : a < b)
    /\ UNCHANGED <<slideTextData, loadingSlides, textBlockColors, colorPickerModal,
                   isConverting, conv>>
    /\ UNCHANGED fnVars
    /\ UNCHANGED <<renderer, shell, selector>>

toggleSelectAll ==
    /\ selectedSlides' =
           IF Len(selectedSlides) = slideCount THEN <<>>
           ELSE [k \in 1..slideCount |-> k - 1]
    /\ UNCHANGED <<slideTextData, loadingSlides, textBlockColors, colorPickerModal,
                   isConverting, conv>>
    /\ UNCHANGED fnVars
    /\ UNCHANGED <<renderer, shell, selector>>

\* the button of a loaded slide with text blocks
openColorPicker(index) ==
    /\ slideTextData[index] # NoData
    /\ Len(slideTextData[index][1].text_blocks) > 0
    /\ colorPickerModal' = <<[slideIndex |-> index, blockIndex |-> -1]>>
    /\ UNCHANGED <<slideTextData, loadingSlides, selectedSlides, textBlockColors,
                   isConverting, conv>>
    /\ UNCHANGED fnVars
    /\ UNCHANGED <<renderer, shell, selector>>

closeColorPicker ==
    /\ colorPickerModal # NoModal
    /\ colorPickerModal' = NoModal
    /\ UNCHANGED <<slideTextData, loadingSlides, selectedSlides, textBlockColors,
                   isConverting, conv>>
    /\ UNCHANGED fnVars
    /\ UNCHANGED <<renderer, shell, selector>>

\* the lookup lost: every call appends an entry
setTextBlockColor_Appends(prev, slideIndex, blockIndex, color) ==
    Append(prev, [slideIndex |-> slideIndex, blockIndex |-> blockIndex,
                  color |-> color])

\* setTextBlockColors(prev => ...): replace the entry of the key, or append one
setTextBlockColor(prev, slideIndex, blockIndex, color) ==
    IF FindOverride(prev, slideIndex, blockIndex) # <<>>
    THEN [k \in DOMAIN prev |->
             IF prev[k].slideIndex = slideIndex /\ prev[k].blockIndex = blockIndex
             THEN [prev[k] EXCEPT !.color = color]
             ELSE prev[k]]
    ELSE Append(prev, [slideIndex |-> slideIndex, blockIndex |-> blockIndex,
                       color |-> color])

\* the color input of a block listed in the open modal
pickBlockColor(blockIndex) ==
    /\ colorPickerModal # NoModal
    /\ blockIndex + 1 \in DOMAIN slideTextData[colorPickerModal[1].slideIndex][1].text_blocks
    /\ textBlockColors' = setTextBlockColor(textBlockColors,
                               colorPickerModal[1].slideIndex, blockIndex, PickerColor)
    /\ UNCHANGED <<slideTextData, loadingSlides, selectedSlides, colorPickerModal,
                   isConverting, conv>>
    /\ UNCHANGED fnVars
    /\ UNCHANGED <<renderer, shell, selector>>

\* the lookup without the edits: slideTextData[slideIndex] || null
getSlideDataForRendering_Original(edited, data, slideIndex) == data[slideIndex]

\* editedSlideData[slideIndex] || slideTextData[slideIndex] || null
getSlideDataForRendering(edited, data, slideIndex) ==
    IF edited[slideIndex] # NoData THEN edited[slideIndex] ELSE data[slideIndex]

\* the for loop of convertSelectedSlides from slide c.i on, up to its next
\* await: a slide without data is skipped (continue), a slide with data is
\* drawn on a canvas and handed to toBlob
RECURSIVE ConvertLoop(_)
ConvertLoop(c) ==
    IF c.i > Len(c.sortedSlides) THEN [c EXCEPT !.pc = "zip"]
    ELSE LET slideIndex == c.sortedSlides[c.i]
             slideData == getSlideDataForRendering(c.editedSlideData, c.slideTextData, slideIndex)
         IN  IF slideData = NoData
             THEN ConvertLoop([c EXCEPT !.i = @ + 1])
             ELSE [c EXCEPT !.pc = "toBlob",
                            !.promise = PendingPromise,
                            !.canvas = <<[of |-> slideIndex,
                                          raster |-> convertSlide(slideData[1], c.app)]>>]

\* sortedSlides.forEach((slideIndex, i) => zip.file(`slide_${slideIndex + 1}.png`,
\* imageBlobs[i])); data is <<>> where imageBlobs[i] is undefined
ZipEntries(c) ==
    [k \in DOMAIN c.sortedSlides |->
        [slideNumber |-> c.sortedSlides[k] + 1,
         data |-> IF k <= Len(c.imageBlobs) THEN <<c.imageBlobs[k]>> ELSE <<>>]]

\* what is left of a call once it has returned: the outcome and the archive
ConvertReturn(c, outcome) ==
    [c EXCEPT !.pc = "done", !.outcome = outcome, !.canvas = <<>>,
              !.slideTextData = <<>>, !.editedSlideData = <<>>, !.app = <<>>]

\* After the loop the archive is filled.  JSZip is not part of the source:
\* given undefined data, file() either stores an entry without content
\* (accepts) or throws, which the catch turns into the error alert.
ConvertZip(c, accepts) ==
    LET entries == ZipEntries(c)
    IN  IF (\E k \in DOMAIN entries : entries[k].data = <<>>) /\ ~accepts
        THEN ConvertReturn(c, "error")
        ELSE [c EXCEPT !.pc = "generateAsync", !.archive = entries]

\* the call from slide c.i on, up to its next await or its return
ConvertRun(c, accepts) ==
    LET d == ConvertLoop(c)
    IN  IF d.pc = "zip" THEN ConvertZip(d, accepts) ELSE d

\* the convert button, disabled without a selection and while converting
convertSelectedSlides ==
    /\ Len(selectedSlides) > 0
    /\ ~isConverting
    /\ \E accepts \in BOOLEAN :
           conv' = ConvertRun(
                      [ConvIdle EXCEPT
                          !.pc = "loop", !.i = 1,
                          !.sortedSlides = SortSeq(selectedSlides, LAMBDA a, b : a < b),
                          !.slideTextData = slideTextData,
                          !.editedSlideData = selector.editedSlideData,
                          !.app = AppState],
                      accepts)
    /\ isConverting' = (conv'.pc # "done")
    /\ UNCHANGED <<slideTextData, loadingSlides, selectedSlides, textBlockColors,
                   colorPickerModal>>
    /\ UNCHANGED fnVars
    /\ UNCHANGED <<renderer, shell, selector>>

\* toBlob calls back: with a blob the call goes on with the next slide; with
\* null the promise it awaits stays pending and the call never resumes
convertEncoded ==
    /\ conv.pc = "toBlob"
    /\ conv.promise = PendingPromise
    /\ \E blob \in EncoderOutcomes, accepts \in BOOLEAN :
           LET promise == toBlobCallback(conv.promise, blob)
           IN  conv' = IF promise.state = "fulfilled"
                       THEN ConvertRun([conv EXCEPT
                                           !.promise = promise,
                                           !.imageBlobs = Append(@, conv.canvas[1]),
                                           !.canvas = <<>>,
                                           !.i = @ + 1],
                                       accepts)
                       ELSE [conv EXCEPT !.promise = promise]
    /\ isConverting' = (conv'.pc # "done")
    /\ UNCHANGED <<slideTextData, loadingSlides, selectedSlides, textBlockColors,
                   colorPickerModal>>
    /\ UNCHANGED fnVars
    /\ UNCHANGED <<renderer, shell, selector>>

\* zip.generateAsync resolves: the download, the success alert, finally
convertDownloaded ==
    /\ conv.pc = "generateAsync"
    /\ conv' = ConvertReturn(conv, "success")
    /\ isConverting' = FALSE
    /\ UNCHANGED <<slideTextData, loadingSlides, selectedSlides, textBlockColors,
                   colorPickerModal>>
    /\ UNCHANGED fnVars
    /\ UNCHANGED <<renderer, shell, selector>>

InitSelectorSpec ==
    /\ InitSelector
    /\ args = [fn |-> "none"]
    /\ ret = NotRun

NextSelector ==
    \/ \E index \in Slides : fetchSlideTextResolved(index)
    \/ \E index \in Slides : fetchSlideTextRejected(index)
    \/ \E index \in Slides : toggleSlideSelection(index)
    \/ toggleSelectAll
    \/ \E index \in Slides : openColorPicker(index)
    \/ closeColorPicker
    \/ \E blockIndex \in BlockIdx : pickBlockColor(blockIndex)
    \/ convertSelectedSlides
    \/ convertEncoded
    \/ convertDownloaded

SpecSelector == InitSelectorSpec /\ [][NextSelector]_vars

\* C3: after convertSelectedSlides has completed successfully, the archive
\* holds for every selected slide index i an entry slide_{i+1}.png whose
\* content is the raster drawn from slide i's own data: never another
\* slide's raster, never a missing image.
C3_ArchiveHoldsEachSlide ==
    (conv.pc = "done" /\ conv.outcome = "success") =>
        \A k \in DOMAIN conv.sortedSlides :
            \E e \in DOMAIN conv.archive :
                /\ conv.archive[e].slideNumber = conv.sortedSlides[k] + 1
                /\ conv.archive[e].data # <<>>
                /\ conv.archive[e].data[1].of = conv.sortedSlides[k]

-----------------------------------------------------------------------------
(* SpecCanvas: one mounted CanvasSlideRenderer, its effect run again and   *)
(* again while the parent changes the props.                               *)

MaxCalls == 2           \* renders recorded on the canvas

\* the assignment lost: the context keeps the font an earlier call left
SetFont_Kept(current, font) == IF current = DefaultFont THEN font ELSE current

\* ctx.font = font: the font the context had before is gone
SetFont(current, font) == font

\* the image handed out before the text is drawn
CallOps_EmitFirst(raster, onImageGenerated) ==
    <<[op |-> "clear"], [op |-> "background"]>>
        \o (IF onImageGenerated THEN <<[op |-> "emit"]>> ELSE <<>>)
        \o [k \in DOMAIN raster.painted |-> [op |-> "text", line |-> raster.painted[k]]]
        \o <<[op |-> "finalized"]>>

\* what one call does to the canvas, in order: the resize clears it, the
\* background, the fillText calls, setIsRendering(false), toDataURL
CallOps(raster, onImageGenerated) ==
    <<[op |-> "clear"], [op |-> "background"]>>
        \o [k \in DOMAIN raster.painted |-> [op |-> "text", line |-> raster.painted[k]]]
        \o <<[op |-> "finalized"]>>
        \o (IF onImageGenerated THEN <<[op |-> "emit"]>> ELSE <<>>)

\* the font the context is left with: the one set for the last fillText
FontLeft(raster, g) ==
    IF raster.painted = <<>> THEN g.font
    ELSE LET runs == raster.painted[Len(raster.painted)].runs
         IN  runs[Len(runs)].font

\* renderToCanvas as the effect calls it: r is the component before the
\* call, p the props and the surface (canvasRef.current, getContext('2d'))
renderCall(r, p) ==
    IF ~p.canvas \/ p.slideData = NoData THEN r
    ELSE IF ~p.ctx THEN [r EXCEPT !.isRendering = TRUE]
    ELSE LET geometry == PreviewGeometry(p.size[1], p.size[2])
             g == [geometry EXCEPT !.font = SetFont(r.font, geometry.font)]
             raster == PreviewDraw(g, p.slideData[1], RendererProps(p.app))
         IN  [isRendering |-> FALSE,
              font |-> FontLeft(raster, g),
              calls |-> Append(r.calls,
                           [props |-> [slideData |-> p.slideData, app |-> p.app,
                                       size |-> p.size],
                            ops |-> CallOps(raster, p.onImageGenerated)]),
              images |-> IF p.onImageGenerated
                         THEN Append(r.images, raster.painted)
                         ELSE r.images]

CanvasSlides ==
    {NoData}
    \cup {<<[slide_index |-> 0, text_blocks |-> <<b>>, full_text |-> b.text]>> :
              b \in {Block(T_SarangGyohoe, 44, FALSE), Block(T_Empty, 16, FALSE)}}
    \cup {<<[slide_index |-> 0, text_blocks |-> <<>>, full_text |-> T_TwoLines]>>}

CanvasArgs ==
    [fn : {"canvas"},
     slideData : CanvasSlides,
     app : [textColor : {DefaultTextColor},
            highlightKeywords : {<<"sa", "rang", ",", "gyo", "hoe">>},
            bibleVerseColor : {DefaultVerseColor},
            bibleVerseEnabled : {TRUE},
            textBlockColors : {<<>>},
            colorPickerModal : {NoModal}],
     size : {<<200, 150>>},
     canvas : BOOLEAN,
     ctx : BOOLEAN,
     onImageGenerated : BOOLEAN]

\* useEffect(() => { renderToCanvas(); }, [...]) (303-305)
RenderEffect ==
    /\ args.fn = "canvas"
    /\ Len(renderer.calls) < MaxCalls
    /\ renderer' = renderCall(renderer, args)
    /\ UNCHANGED <<args, ret, shell, selector>>
    /\ UNCHANGED appVars

\* the parent renders the component with other props, or the surface changes
SetProps ==
    /\ args.fn = "canvas"
    /\ Len(renderer.calls) < MaxCalls
    /\ args' \in CanvasArgs
    /\ UNCHANGED <<ret, shell, renderer, selector>>
    /\ UNCHANGED appVars

InitCanvas ==
    /\ args \in CanvasArgs
    /\ ret = NotRun
    /\ InitSelector
NextCanvas == RenderEffect \/ SetProps
SpecCanvas == InitCanvas /\ [][NextCanvas]_vars

TextOps(call) == SelectSeq(call.ops, LAMBDA o : o.op = "text")
Emits(call) == \E k \in DOMAIN call.ops : call.ops[k].op = "emit"

\* C11: each render call goes Empty, BackgroundPainted, one pass at most,
\* Finalized: the background before any text, not both passes, the image
\* emitted at most once and only after all painting of the call, holding
\* all of it; a call that does not finish emits no image.
C11_CallOrder ==
    /\ \A c \in DOMAIN renderer.calls :
          LET ops == renderer.calls[c].ops
              texts == {k \in DOMAIN ops : ops[k].op = "text"}
              final == {k \in DOMAIN ops : ops[k].op = "finalized"}
              emits == {k \in DOMAIN ops : ops[k].op = "emit"}
          IN  /\ ops[1].op = "clear"
              /\ ops[2].op = "background"
              /\ \A k \in texts : k > 2
              /\ Cardinality({ops[k].line.pass : k \in texts} \cap {"block", "fallback"}) <= 1
              /\ Cardinality(final) = 1
              /\ \A k \in texts : \A f \in final : k < f
              /\ Cardinality(emits) <= 1
              /\ \A k \in emits : k = Len(ops) /\ \A f \in final : f < k
    /\ Len(renderer.images)
           = Cardinality({c \in DOMAIN renderer.calls : Emits(renderer.calls[c])})
    /\ \A m \in DOMAIN renderer.images :
          \E c \in DOMAIN renderer.calls :
              /\ Emits(renderer.calls[c])
              /\ renderer.images[m]
                     = [k \in DOMAIN TextOps(renderer.calls[c]) |->
                           TextOps(renderer.calls[c])[k].line]

\* a call drew two lines in the fallback pass and handed out its image, and
\* a call without callback or without surface handed out none
C11_Witness ==
    /\ Len(renderer.calls) = 2
    /\ Len(renderer.images) = 1
    /\ \E c \in DOMAIN renderer.calls :
          /\ Emits(renderer.calls[c])
          /\ Len(TextOps(renderer.calls[c])) = 2
          /\ TextOps(renderer.calls[c])[1].line.pass = "fallback"

\* C12: with the canvas, its 2D context or the slide data missing, a render
\* call is a no-op: nothing painted, no image, isRendering and the rest of
\* the component as before.
C12_MissingSurfaceIsNoOp ==
    [][(/\ args.fn = "canvas"
        /\ args' = args
        /\ (~args.canvas \/ ~args.ctx \/ args.slideData = NoData))
         => renderer' = renderer]_vars

\* C16: two renders of the same slideData and config paint the same draw
\* operations (text, position, color, font), whatever was rendered before
\* and whatever font that left on the context.
C16_SameInputSameDrawing ==
    \A i, j \in DOMAIN renderer.calls :
        renderer.calls[i].props = renderer.calls[j].props
            => TextOps(renderer.calls[i]) = TextOps(renderer.calls[j])

\* the same block slide was rendered twice, and the first render left the
\* block's 44px font on the context
C16_Witness ==
    /\ Len(renderer.calls) = 2
    /\ renderer.calls[1].props = renderer.calls[2].props
    /\ Len(TextOps(renderer.calls[1])) > 0
    /\ TextOps(renderer.calls[1])[1].line.runs[1].font.size = 4400
    /\ renderer.font.size = 4400

\* the characters of a painted line in order, each with its run's color
LineChars(line) ==
    Concat([k \in DOMAIN line.runs |->
               [i \in DOMAIN line.runs[k].text |->
                   [ch |-> line.runs[k].text[i], color |-> line.runs[k].color]]])

\* C13: the preview draws every occurrence of a highlight keyword in a
\* color of the highlight palette, for slides with and without text blocks.
C13_KeywordsDrawnHighlighted ==
    \A k \in WrappedLines(ret.preview) :
        LET line == ret.preview.painted[k]
            chars == LineChars(line)
            keywords == RendererProps(args.app).highlightKeywords
        IN  \A i \in DOMAIN chars :
                InKeywordOccurrence(LineText(line), keywords, i)
                    => \E c \in DOMAIN highlightColors : chars[i].color = highlightColors[c]

\* C14: processTextWithKeywords partitions its input: the texts of the
\* returned segments, concatenated in order, are exactly the input text,
\* letter case included, with no marker text.
C14_SegmentsPartitionInput ==
    ret # NotRun =>
        Concat([k \in DOMAIN ret |-> ret[k].text]) = args.text

-----------------------------------------------------------------------------
(* SpecPicker: the color picker modal over a loaded deck.  ret is the list *)
(* of setTextBlockColor calls made so far.                                 *)

MaxPicks == 3           \* setTextBlockColor calls in a behaviour

\* a loaded deck whose slide i has (i % 2) + 1 text blocks
PickerData(i) ==
    LET bs == [k \in 1..((i % 2) + 1) |-> Block(T_Gen11Taecho, 16, FALSE)]
    IN  [slide_index |-> i, text_blocks |-> bs,
         full_text |-> Join([k \in DOMAIN bs |-> bs[k].text], <<Newline>>)]

\* onChange of the color input of a block listed in the open modal
pickColor(blockIndex, color) ==
    /\ args.fn = "picker"
    /\ Len(ret) < MaxPicks
    /\ colorPickerModal # NoModal
    /\ blockIndex + 1 \in DOMAIN slideTextData[colorPickerModal[1].slideIndex][1].text_blocks
    /\ textBlockColors' = setTextBlockColor(textBlockColors,
                               colorPickerModal[1].slideIndex, blockIndex, color)
    /\ ret' = Append(ret, [slideIndex |-> colorPickerModal[1].slideIndex,
                           blockIndex |-> blockIndex, color |-> color])
    /\ UNCHANGED <<slideTextData, loadingSlides, selectedSlides, colorPickerModal,
                   isConverting, conv>>
    /\ UNCHANGED <<args, renderer, shell, selector>>

\* the reset button next to the color input: the block is set to textColor
resetColor(blockIndex) == pickColor(blockIndex, DefaultTextColor)

InitPicker ==
    /\ args = [fn |-> "picker"]
    /\ ret = <<>>
    /\ InitShell
    /\ InitRenderer
    /\ InitRest
    /\ slideTextData = [i \in Slides |-> <<PickerData(i)>>]
    /\ loadingSlides = {}
    /\ selectedSlides = <<>>
    /\ textBlockColors = <<>>
    /\ colorPickerModal = NoModal
    /\ isConverting = FALSE
    /\ conv = ConvIdle

NextPicker ==
    \/ \E index \in Slides : openColorPicker(index)
    \/ closeColorPicker
    \/ \E blockIndex \in BlockIdx : \E color \in PickedColors : pickColor(blockIndex, color)
    \/ \E blockIndex \in BlockIdx : resetColor(blockIndex)

SpecPicker == InitPicker /\ [][NextPicker]_vars

\* the calls of ret made for a block
CallsFor(s, b) == {k \in DOMAIN ret : ret[k].slideIndex = s /\ ret[k].blockIndex = b}

\* C15: after any sequence of setTextBlockColor calls the override list has
\* at most one entry per (slideIndex, blockIndex), none for a block never
\* set, and the entry of a block carries the color set for it last.
C15_OneEntryLastColor ==
    /\ UniqueKeys(textBlockColors)
    /\ \A s \in Slides : \A b \in BlockIdx :
          IF CallsFor(s, b) = {}
          THEN ~HasOverride(textBlockColors, s, b)
          ELSE LET last == CHOOSE k \in CallsFor(s, b) : \A j \in CallsFor(s, b) : j <= k
               IN  \E e \in DOMAIN textBlockColors :
                       /\ textBlockColors[e].slideIndex = s
                       /\ textBlockColors[e].blockIndex = b
                       /\ textBlockColors[e].color = ret[last].color

\* a block was set, another block was set, and the first was set again to
\* a different color
C15_Witness ==
    /\ Len(ret) = 3
    /\ <<ret[1].slideIndex, ret[1].blockIndex>> = <<ret[3].slideIndex, ret[3].blockIndex>>
    /\ <<ret[1].slideIndex, ret[1].blockIndex>> # <<ret[2].slideIndex, ret[2].blockIndex>>
    /\ ret[1].color # ret[3].color
    /\ Len(textBlockColors) = 2

-----------------------------------------------------------------------------
(* SpecVerse: detectBibleVerse over short texts.  ret holds the result of  *)
(* the call once it was made.                                              *)

MaxVerseLen == 4        \* longest text drawn from VerseAlphabet

VerseAlphabet == {"1", ":", Space, "jang", "jeol", "chang", "J"}
T_Gen11Range == T_Gen11 \o <<"-", "3">>
T_Blank == <<Space, Newline, Space>>
VerseTexts ==
    UNION {[1..n -> VerseAlphabet] : n \in 0..MaxVerseLen}
        \cup {T_Gen11, T_Gen11Lead, T_Gen11Range, T_John316, T_JangJeol, T_Hello,
              T_Blank, <<Space>> \o T_JangJeol \o <<Newline>>}

Detect ==
    /\ args.fn = "detectBibleVerse"
    /\ ret = <<>>
    /\ ret' = <<detectBibleVerse(args.text)>>
    /\ UNCHANGED args
    /\ UNCHANGED appVars
    /\ UNCHANGED <<renderer, shell, selector>>

InitVerse ==
    /\ args \in [fn : {"detectBibleVerse"}, text : VerseTexts]
    /\ ret = <<>>
    /\ InitSelector
NextVerse == Detect
SpecVerse == InitVerse /\ [][NextVerse]_vars

\* t[from..to-1] is a run of the element's class of a length its quantifier allows
RunOf(el, t, from, to) ==
    /\ \A j \in from..(to - 1) : t[j] \in el.cls
    /\ CASE el.q = "one" -> to = from + 1
         [] el.q = "plus" -> to >= from + 1
         [] el.q = "star" -> TRUE

\* some prefix of t from position from is the pattern's elements in order
RECURSIVE PrefixIs(_, _, _)
PrefixIs(re, t, from) ==
    IF re = <<>> THEN TRUE
    ELSE \E to \in from..(Len(t) + 1) :
             RunOf(Head(re), t, from, to) /\ PrefixIs(Tail(re), t, to)

C18_RenderLeavesInputs ==
    [][/\ args'.slideData = args.slideData
       /\ args'.app = args.app
       /\ args'.size = args.size
       /\ textBlockColors' = textBlockColors]_vars

\* the preview and the export of a slide with text blocks were drawn with
\* an override in the list
C18_Witness ==
    /\ args.fn = "render"
    /\ ret.preview.pass = "block"
    /\ ret.highRes.pass = "block"
    /\ args.app.textBlockColors # <<>>

\* the words of a text: what stands between spaces and newlines, lowercased
Words(t) ==
    SelectSeq(Concat([k \in DOMAIN Split(t, Newline) |-> Split(Split(t, Newline)[k], Space)]),
              LAMBDA w : w # <<>>)
WordsOf(t) == [k \in DOMAIN Words(t) |-> ToLower(Words(t)[k])]

\* the words a raster shows, line by line and run by run
PaintedWords(raster) ==
    Concat([k \in DOMAIN raster.painted |-> WordsOf(LineText(raster.painted[k]))])

\* a is b with some elements left out
RECURSIVE IsSubsequence(_, _)
IsSubsequence(a, b) ==
    IF a = <<>> THEN TRUE
    ELSE IF b = <<>> THEN FALSE
    ELSE IF Head(a) = Head(b) THEN IsSubsequence(Tail(a), Tail(b))
    ELSE IsSubsequence(a, Tail(b))

\* C19: the fallback pass, in the preview and in the export, paints each
\* line at most once: no line is painted at a cursor past
\* height - lineHeight, and the painted words are words of the input in
\* input order, none more often than the input has it.
C19_FallbackPaintsOnce ==
    \A which \in {"preview", "highRes"} :
        ret[which].pass = "fallback" =>
            /\ \A k \in DOMAIN ret[which].painted :
                   ret[which].painted[k].y
                       <= GeometryOf(which).height - GeometryOf(which).lineHeight
            /\ IsSubsequence(PaintedWords(ret[which]), WordsOf(args.slideData.full_text))

-----------------------------------------------------------------------------
(* SpecShell: App's file selection, reset and the answers of               *)
(* /api/slide-info, which arrive in any order                              *)

MaxRequests == 3        \* files selected in a behaviour

Files == {"a.pptx", "b.pptx"}
\* response.data.slide_count for a file
SlideCountOf(f) == IF f = "a.pptx" THEN 1 ELSE 2

\* handleFileChange up to the await: the input is rendered while no file is
\* shown, and its button is disabled while isLoading
handleFileChange(selectedFile) ==
    /\ shell.file = NoFile
    /\ ~shell.isLoading
    /\ shell.requests < MaxRequests
    /\ shell' = [shell EXCEPT
                    !.file = selectedFile,
                    !.isLoading = TRUE,
                    !.requests = @ + 1,
                    !.pending = @ \cup {[id |-> shell.requests + 1, file |-> selectedFile]}]
    /\ UNCHANGED <<args, ret, renderer, selector>>
    /\ UNCHANGED appVars

\* handleFileChange after the await, the request answered: try, finally
slideInfoResolved(request) ==
    /\ request \in shell.pending
    /\ shell' = [shell EXCEPT
                    !.slideCount = SlideCountOf(request.file),
                    !.isLoading = FALSE,
                    !.pending = @ \ {request}]
    /\ UNCHANGED <<args, ret, renderer, selector>>
    /\ UNCHANGED appVars

\* handleFileChange after the await, the request failed: catch, finally
slideInfoRejected(request) ==
    /\ request \in shell.pending
    /\ shell' = [shell EXCEPT
                    !.file = NoFile,
                    !.slideCount = 0,
                    !.isLoading = FALSE,
                    !.pending = @ \ {request}]
    /\ UNCHANGED <<args, ret, renderer, selector>>
    /\ UNCHANGED appVars

\* the reset button of the file view; the request in flight is not cancelled
handleReset ==
    /\ shell.file # NoFile
    /\ shell' = [shell EXCEPT !.file = NoFile, !.slideCount = 0, !.isLoading = FALSE]
    /\ UNCHANGED <<args, ret, renderer, selector>>
    /\ UNCHANGED appVars

InitApp ==
    /\ args = [fn |-> "app"]
    /\ ret = NotRun
    /\ InitSelector

NextShell ==
    \/ \E selectedFile \in Files : handleFileChange(selectedFile)
    \/ \E request \in shell.pending : slideInfoResolved(request)
    \/ \E request \in shell.pending : slideInfoRejected(request)
    \/ handleReset

SpecShell == InitApp /\ [][NextShell]_vars

\* C20: under every interleaving of file selection, reset and slide-info
\* answers, slideCount is 0 whenever no file is shown, and whenever a file
\* is shown with no request pending slideCount is the count answered for
\* that file.
C20_CountBelongsToFile ==
    /\ shell.file = NoFile => shell.slideCount = 0
    /\ (shell.file # NoFile /\ shell.pending = {})
           => shell.slideCount = SlideCountOf(shell.file)

-----------------------------------------------------------------------------
(* SpecPreview: the thumbnails of a loaded deck.  A render of SlideSelector *)
(* hands every CanvasSlideRenderer a new highlightKeywords array, which is *)
(* a dependency of its render effect; the effect hands its image back      *)
(* through onImageGenerated.                                               *)

MaxInputs == 2          \* edits of the settings in a behaviour

\* the props a thumbnail was rendered with
PreviewApp ==
    [textColor |-> selector.rendered.textColor,
     highlightKeywords |-> selector.rendered.highlightKeywords,
     bibleVerseColor |-> DefaultVerseColor,
     bibleVerseEnabled |-> TRUE,
     textBlockColors |-> textBlockColors,
     colorPickerModal |-> colorPickerModal]

\* canvas.toDataURL after renderToCanvas: the image is determined by the
\* slide drawn and the props it was drawn with
canvasImage(index, app) ==
    [slide |-> index, textColor |-> app.textColor,
     highlightKeywords |-> ParseKeywords(app.highlightKeywords)]

\* the render effect of the thumbnail of slide index: renderToCanvas, then
\* onImageGenerated: setSlideImages(prev => ({...prev, [index]: dataUrl}))
previewEffect(index) ==
    /\ index \in selector.effects
    /\ selector' = [selector EXCEPT
           !.effects = @ \ {index},
           !.slideImages[index] = <<canvasImage(index, PreviewApp)>>,
           !.renderPending = TRUE]
    /\ UNCHANGED <<args, ret, renderer, shell>>
    /\ UNCHANGED appVars

\* SlideSelector renders after a state update: each thumbnail of a loaded
\* slide gets highlightKeywords.split(',')..., an array it has not seen
renderSelector ==
    /\ selector.renderPending
    /\ selector' = [selector EXCEPT
           !.renderPending = FALSE,
           !.rendered = [textColor |-> selector.textColor,
                         highlightKeywords |-> selector.highlightKeywords],
           !.effects = {i \in Slides : slideTextData[i] # NoData /\ i \notin loadingSlides}]
    /\ UNCHANGED <<args, ret, renderer, shell>>
    /\ UNCHANGED appVars

\* the keyword input
setHighlightKeywords(raw) ==
    /\ selector.inputs < MaxInputs
    /\ selector' = [selector EXCEPT !.highlightKeywords = raw,
                                    !.inputs = @ + 1,
                                    !.renderPending = TRUE]
    /\ UNCHANGED <<args, ret, renderer, shell>>
    /\ UNCHANGED appVars

\* the text color input
setTextColor(color) ==
    /\ selector.inputs < MaxInputs
    /\ selector' = [selector EXCEPT !.textColor = color,
                                    !.inputs = @ + 1,
                                    !.renderPending = TRUE]
    /\ UNCHANGED <<args, ret, renderer, shell>>
    /\ UNCHANGED appVars

\* every slide loaded, the thumbnails mounted, their first effect scheduled
InitPreview ==
    /\ args = [fn |-> "preview"]
    /\ ret = NotRun
    /\ InitShell
    /\ InitRenderer
    /\ selector = [RestAtMount EXCEPT !.effects = Slides]
    /\ slideTextData = [i \in Slides |-> <<ServerData(i)>>]
    /\ loadingSlides = {}
    /\ selectedSlides = <<>>
    /\ textBlockColors = <<>>
    /\ colorPickerModal = NoModal
    /\ isConverting = FALSE
    /\ conv = ConvIdle

NextPreview ==
    \/ \E index \in Slides : previewEffect(index)
    \/ renderSelector
    \/ \E raw \in KeywordInputs : setHighlightKeywords(raw)
    \/ \E color \in {DefaultTextColor} \cup PickedColors : setTextColor(color)

\* React runs every scheduled effect and every pending render
SpecPreview ==
    /\ InitPreview
    /\ [][NextPreview]_vars
    /\ \A index \in Slides : WF_vars(previewEffect(index))
    /\ WF_vars(renderSelector)

\* C21: with the slide data loaded and the user's input over, the preview
\* pipeline comes to rest: from some point on no render effect is scheduled
\* and no re-render of SlideSelector is pending.
C21_PreviewQuiesces ==
    <>[](selector.effects = {} /\ ~selector.renderPending)

-----------------------------------------------------------------------------
(* SpecConvert: SpecSelector with the browser's scheduling: a callback     *)
(* that is due is delivered, a promise that is settled is resumed          *)

SpecConvert ==
    /\ SpecSelector
    /\ WF_vars(convertEncoded)
    /\ WF_vars(convertDownloaded)

\* C22: every conversion that was started ends with isConverting = FALSE,
\* whether it succeeds, fails in packaging or gets no blob from toBlob.
C22_ConversionEnds ==
    isConverting ~> ~isConverting

\* position p of text lies in an occurrence of keyword, in any letter case,
\* that starts at b
Covers(text, keyword, b, p) ==
    MatchesAt(text, b, keyword) /\ b <= p /\ p <= b + Len(keyword) - 1

\* C23: where a later keyword (index j) matches inside text an earlier
\* keyword (index i < j) has wrapped, the overlapping text is returned in
\* the later keyword's color, palette[j mod paletteSize].
C23_LaterKeywordWins ==
    ret # NotRun =>
        LET chars == SegmentChars(ret)
            kws == args.highlightKeywords
        IN  \A i, j \in DOMAIN kws : \A a, b, p \in DOMAIN args.text :
                (/\ i < j
                 /\ Covers(args.text, kws[i], a, p)
                 /\ Covers(args.text, kws[j], b, p)
                 /\ a <= b
                 /\ b + Len(kws[j]) <= a + Len(kws[i])
                 \* no earlier pass has put a marker inside the later keyword's match
                 /\ \A k \in 1..(j - 1) : \A c \in DOMAIN args.text :
                        MatchesAt(args.text, c, kws[k]) =>
                            /\ ~(b < c /\ c <= b + Len(kws[j]) - 1)
                            /\ ~(b <= c + Len(kws[k]) - 1 /\ c + Len(kws[k]) < b + Len(kws[j]))
                 \* no keyword after j matches the character
                 /\ \A k \in DOMAIN kws : k > j => ~InKeywordOccurrence(args.text, <<kws[k]>>, p))
                    => /\ p <= Len(chars)
                       /\ chars[p].color = SegmentColor(j - 1, args.textColor)

-----------------------------------------------------------------------------
(* SpecLoad: one mounted SlideSelector loading its slides.  App hands down *)
(* slideCount, 0 until /api/slide-info has answered and then the count of  *)
(* each answer that arrives.                                               *)

MaxFetches == 4         \* get-slide-text requests in a behaviour

\* fetchSlideText(index) up to its await, in the closure of the effect
fetchSlideText(st, index) ==
    IF index \in st.closure.slideTextData \/ index \in st.closure.loadingSlides
    THEN st
    ELSE [st EXCEPT !.loadingSlides = @ \cup {index},
                    !.inflight[index] = @ + 1,
                    !.fetches = @ + 1]

\* for (let i = 0; i < slideCount; i++) fetchSlideText(i)
RECURSIVE LoadLoop(_, _, _)
LoadLoop(st, i, n) ==
    IF i >= n THEN st ELSE LoadLoop(fetchSlideText(st, i), i + 1, n)

\* a render with a new slideCount prop schedules the effect; the effect of
\* the render before has run by then
slideCountChanged(n) ==
    /\ args.fn = "load"
    /\ ~selector.loadEffect
    /\ n # selector.slideCount
    /\ selector' = [selector EXCEPT
           !.slideCount = n,
           !.loadEffect = TRUE,
           !.closure = [slideTextData |-> {i \in Slides : slideTextData[i] # NoData},
                        loadingSlides |-> loadingSlides]]
    /\ UNCHANGED <<args, ret, renderer, shell>>
    /\ UNCHANGED appVars

\* useEffect(() => { for ... fetchSlideText(i) }, [file, slideCount])
loadSlidesEffect ==
    /\ args.fn = "load"
    /\ selector.loadEffect
    /\ selector.fetches + selector.slideCount <= MaxFetches
    /\ LET st == LoadLoop([closure |-> selector.closure,
                           loadingSlides |-> loadingSlides,
                           inflight |-> selector.inflight,
                           fetches |-> selector.fetches],
                          0, selector.slideCount)
       IN  /\ loadingSlides' = st.loadingSlides
           /\ selector' = [selector EXCEPT !.loadEffect = FALSE,
                                           !.inflight = st.inflight,
                                           !.fetches = st.fetches]
    /\ UNCHANGED <<slideTextData, selectedSlides, textBlockColors, colorPickerModal,
                   isConverting, conv>>
    /\ UNCHANGED <<args, ret, renderer, shell>>

\* a request of slide index is answered: try after the await, finally
slideTextResolved(index) ==
    /\ args.fn = "load"
    /\ selector.inflight[index] > 0
    /\ slideTextData' = [slideTextData EXCEPT ![index] = <<ServerData(index)>>]
    /\ loadingSlides' = loadingSlides \ {index}
    /\ selector' = [selector EXCEPT !.loadedCount = @ + 1,
                                    !.inflight[index] = @ - 1,
                                    !.succeeded[index] = @ + 1]
    /\ UNCHANGED <<selectedSlides, textBlockColors, colorPickerModal, isConverting, conv>>
    /\ UNCHANGED <<args, ret, renderer, shell>>

\* a request of slide index fails: catch, finally
slideTextRejected(index) ==
    /\ args.fn = "load"
    /\ selector.inflight[index] > 0
    /\ loadingSlides' = loadingSlides \ {index}
    /\ selector' = [selector EXCEPT !.inflight[index] = @ - 1]
    /\ UNCHANGED <<slideTextData, selectedSlides, textBlockColors, colorPickerModal,
                   isConverting, conv>>
    /\ UNCHANGED <<args, ret, renderer, shell>>

\* the mount: the effect is scheduled with the slideCount App has then
InitLoad ==
    /\ args = [fn |-> "load"]
    /\ ret = NotRun
    /\ InitShell
    /\ InitRenderer
    /\ \E n \in 0..slideCount :
           selector = [RestAtMount EXCEPT !.slideCount = n, !.loadEffect = TRUE]
    /\ slideTextData = [i \in Slides |-> NoData]
    /\ loadingSlides = {}
    /\ selectedSlides = <<>>
    /\ textBlockColors = <<>>
    /\ colorPickerModal = NoModal
    /\ isConverting = FALSE
    /\ conv = ConvIdle

NextLoad ==
    \/ \E n \in 0..slideCount : slideCountChanged(n)
    \/ loadSlidesEffect
    \/ \E index \in Slides : slideTextResolved(index)
    \/ \E index \in Slides : slideTextRejected(index)

SpecLoad == InitLoad /\ [][NextLoad]_vars

\* C24: for each slide at most one get-slide-text request is in flight and
\* at most one request succeeds, under every schedule of effect runs and
\* answers; loadedCount never exceeds slideCount and equals the number of
\* slides that have data.
C24_OneRequestPerSlide ==
    /\ \A i \in Slides : selector.inflight[i] <= 1 /\ selector.succeeded[i] <= 1
    /\ selector.loadedCount = Cardinality({i \in Slides : slideTextData[i] # NoData})
    /\ selector.loadedCount <= selector.slideCount

-----------------------------------------------------------------------------
(* The layout of the block pass, stated from the lines it painted: the     *)
(* lines of a block are the longest run of painted lines whose texts, put  *)
(* together, begin the block's text.                                       *)

IsPrefix(t, text) == Len(t) <= Len(text) /\ SubSeq(text, 1, Len(t)) = t

\* how many of the lines from k on spell the beginning of rest
RECURSIVE LinesTaken(_, _, _)
LinesTaken(painted, k, rest) ==
    IF k > Len(painted) THEN 0
    ELSE LET t == LineText(painted[k])
         IN  IF t # <<>> /\ IsPrefix(t, rest)
             THEN 1 + LinesTaken(painted, k + 1, SubSeq(rest, Len(t) + 1, Len(rest)))
             ELSE 0

\* the blocks from b on account for the lines from k on, the first of them
\* at y, each next line of a block one lineHeight lower, and each next
\* block 0.3 lineHeight below the end of the one before
RECURSIVE LaidOut(_, _, _, _, _, _)
LaidOut(blocks, b, painted, k, y, g) ==
    IF b > Len(blocks) THEN k > Len(painted)
    ELSE LET n == LinesTaken(painted, k, blocks[b].text)
         IN  /\ \A j \in 0..(n - 1) :
                    /\ painted[k + j].pass = "block"
                    /\ painted[k + j].y = y + j * g.lineHeight
             /\ LaidOut(blocks, b + 1, painted, k + n,
                        y + n * g.lineHeight + (3 * g.lineHeight) \div 10, g)

\* C25: the block pass of renderToCanvas paints its lines in block order
\* and word order at strictly increasing y, the cursor starting at padding,
\* advancing by lineHeight per painted line and by a further 0.3 lineHeight
\* after each processed block.
C25_BlockPassLayout ==
    ret.preview.pass = "block" =>
        LET painted == ret.preview.painted
            g == GeometryOf("preview")
        IN  /\ LaidOut(args.slideData.text_blocks, 1, painted, 1, g.padding, g)
            /\ \A k \in 1..(Len(painted) - 1) : painted[k].y < painted[k + 1].y

\* a block wrapped over two lines, and a line of the block after it
C25_Witness ==
    /\ ret.preview.pass = "block"
    /\ LET painted == ret.preview.painted
           g == GeometryOf("preview")
       IN  /\ \E k \in 1..(Len(painted) - 1) :
                  painted[k + 1].y = painted[k].y + g.lineHeight
           /\ \E k \in 1..(Len(painted) - 1) :
                  painted[k + 1].y
                      = painted[k].y + g.lineHeight + (3 * g.lineHeight) \div 10

-----------------------------------------------------------------------------
(* The runs of the lines the fallback pass painted.                        *)

\* the lines of the renderer's rasters that its fallback pass painted
FallbackLines(which) ==
    {k \in DOMAIN ret[which].painted : ret[which].painted[k].pass = "fallback"}

\* C26: in every line the fallback pass paints, consecutive runs with the
\* same color and the same highlighted flag are merged: no two adjacent runs
\* of a painted line have identical color and flag.
C26_AdjacentRunsDiffer ==
    \A which \in {"preview", "highRes"} :
        \A k \in FallbackLines(which) :
            LET runs == ret[which].painted[k].runs
            IN  \A r \in 1..(Len(runs) - 1) :
                    \/ runs[r].color # runs[r + 1].color
                    \/ runs[r].font.bold # runs[r + 1].font.bold

\* a painted line of several runs, one of them merged from several words
C26_Witness ==
    \E k \in FallbackLines("preview") :
        LET runs == ret.preview.painted[k].runs
        IN  /\ Len(runs) >= 3
            /\ \E r \in DOMAIN runs :
                   \E c \in 1..(Len(runs[r].text) - 1) : runs[r].text[c] = Space

\* C27: an empty segment produces no run: no run with empty text is ever
\* added to a line or painted by the fallback pass.
C27_NoEmptyRun ==
    \A which \in {"preview", "highRes"} :
        \A k \in FallbackLines(which) :
            LET runs == ret[which].painted[k].runs
            IN  \A r \in DOMAIN runs : runs[r].text # <<>>

-----------------------------------------------------------------------------
(* SpecReset: the color picker modal with the base text color as state.    *)
(* ret is the list of the clicks made in the modal: the block, the color   *)
(* stored for it, and whether the click was on the reset button.           *)

\* setTextBlockColor(colorPickerModal.slideIndex, blockIndex, color), from
\* the color input of the block or from its reset button
modalSetsColor(blockIndex, color, reset) ==
    /\ args.fn = "reset"
    /\ Len(ret) < MaxPicks
    /\ colorPickerModal # NoModal
    /\ blockIndex + 1 \in DOMAIN slideTextData[colorPickerModal[1].slideIndex][1].text_blocks
    /\ textBlockColors' = setTextBlockColor(textBlockColors,
                               colorPickerModal[1].slideIndex, blockIndex, color)
    /\ ret' = Append(ret, [slideIndex |-> colorPickerModal[1].slideIndex,
                           blockIndex |-> blockIndex, color |-> color, reset |-> reset])
    /\ UNCHANGED <<slideTextData, loadingSlides, selectedSlides, colorPickerModal,
                   isConverting, conv>>
    /\ UNCHANGED <<args, renderer, shell, selector>>

\* onChange={(e) => setTextBlockColor(..., blockIndex, e.target.value)}
colorInputChanged(blockIndex, color) == modalSetsColor(blockIndex, color, FALSE)

\* onClick={() => setTextBlockColor(..., blockIndex, textColor)}
resetClicked(blockIndex) == modalSetsColor(blockIndex, selector.textColor, TRUE)

InitReset ==
    /\ args = [fn |-> "reset"]
    /\ ret = <<>>
    /\ InitShell
    /\ InitRenderer
    /\ InitRest
    /\ slideTextData = [i \in Slides |-> <<PickerData(i)>>]
    /\ loadingSlides = {}
    /\ selectedSlides = <<>>
    /\ textBlockColors = <<>>
    /\ colorPickerModal = NoModal
    /\ isConverting = FALSE
    /\ conv = ConvIdle

NextReset ==
    \/ \E index \in Slides : openColorPicker(index)
    \/ closeColorPicker
    \/ \E blockIndex \in BlockIdx : \E color \in PickedColors :
           colorInputChanged(blockIndex, color)
    \/ \E blockIndex \in BlockIdx : resetClicked(blockIndex)
    \/ \E color \in {DefaultTextColor} \cup PickedColors : setTextColor(color)

SpecReset == InitReset /\ [][NextReset]_vars

\* the props the renderers get in the current state
CurrentProps ==
    [textColor |-> selector.textColor,
     highlightKeywords |-> ParseKeywords(selector.highlightKeywords),
     bibleVerseColor |-> DefaultVerseColor,
     bibleVerseEnabled |-> TRUE,
     textBlockColors |-> textBlockColors]

\* the last click in the modal for block b of slide s was on its reset button
LastWasReset(s, b) ==
    /\ CallsFor(s, b) # {}
    /\ LET last == CHOOSE k \in CallsFor(s, b) : \A j \in CallsFor(s, b) : j <= k
       IN  ret[last].reset

\* C28: after the reset button of block b of slide s was clicked, and until
\* another color is picked for that block, the block is rendered in the
\* configured base text color, in every later state, also after the base
\* text color was changed.
C28_ResetFollowsTextColor ==
    \A s \in Slides : \A b \in BlockIdx :
        (b + 1 \in DOMAIN slideTextData[s][1].text_blocks /\ LastWasReset(s, b)) =>
            getTextBlockColor(slideTextData[s][1].text_blocks[b + 1].text, b, s, CurrentProps)
                = selector.textColor

-----------------------------------------------------------------------------
(* SpecSelection: SpecLoad with the selection controls.  The checkboxes    *)
(* and the select-all button are rendered for the current slideCount      *)
(* prop, which App changes when a slide-info answer arrives.               *)

\* toggleSelectAll with the slideCount prop of the last render
toggleSelectAllMounted ==
    /\ args.fn = "load"
    /\ selectedSlides' =
           IF Len(selectedSlides) = selector.slideCount THEN <<>>
           ELSE [k \in 1..selector.slideCount |-> k - 1]
    /\ UNCHANGED <<slideTextData, loadingSlides, textBlockColors, colorPickerModal,
                   isConverting, conv>>
    /\ UNCHANGED fnVars
    /\ UNCHANGED <<renderer, shell, selector>>

NextSelection ==
    \/ NextLoad
    \/ \E index \in 0..(selector.slideCount - 1) : toggleSlideSelection(index)
    \/ toggleSelectAllMounted

SpecSelection == InitLoad /\ [][NextSelection]_vars

\* strictly ascending, every element a slide of the deck
SelectionInOrder(selected, n) ==
    /\ \A k \in 1..(Len(selected) - 1) : selected[k] < selected[k + 1]
    /\ \A k \in DOMAIN selected : selected[k] \in 0..(n - 1)

AllSelected(selected, n) ==
    \A i \in 0..(n - 1) : \E k \in DOMAIN selected : selected[k] = i

\* C29: selectedSlides is always strictly ascending with every element in
\* 0..slideCount-1; toggleSelectAll yields the empty selection when all
\* slides are selected and the full selection otherwise.
C29_SelectionSortedInRange ==
    [][/\ SelectionInOrder(selectedSlides', selector'.slideCount)
       /\ toggleSelectAllMounted =>
              selectedSlides' =
                  IF AllSelected(selectedSlides, selector.slideCount) THEN <<>>
                  ELSE [k \in 1..selector.slideCount |-> k - 1]]_vars

-----------------------------------------------------------------------------
(* SpecEdit: the edit modal over a deck that is loading, with the export.  *)
(* ret.saved[s] is the text the editor handed over last for slide s while  *)
(* s had data, ret.refused the slides a save was tried for without data.   *)

\* what the rich text editor hands to onSave: markup with a bold run, two
\* paragraphs with an entity, and a lone line break
E_Bold ==
    <<"<", "b", ">", "sa", "rang", "<", "/", "b", ">", " ", "gyo", "hoe">>
E_Paragraphs ==
    <<"<", "p", ">", "1", " ", "&", "a", "m", "p", ";", " ", "2", "<", "/", "p", ">",
      "<", "p", ">", "tae", "cho", "<", "/", "p", ">">>
E_Break == <<"<", "b", "r", ">">>
EditorTexts == {E_Bold, E_Paragraphs, E_Break}

\* the index of the first c in t from position i on, 0 when there is none
RECURSIVE IndexFrom(_, _, _)
IndexFrom(t, c, i) ==
    IF i > Len(t) THEN 0
    ELSE IF t[i] = c THEN i
    ELSE IndexFrom(t, c, i + 1)

\* tempDiv.innerHTML = html; tempDiv.textContent: the text nodes of the
\* parsed markup in document order, tags dropped, &amp; decoded
RECURSIVE textContent(_, _)
textContent(html, i) ==
    IF i > Len(html) THEN <<>>
    ELSE IF html[i] = "<" /\ IndexFrom(html, ">", i) # 0
    THEN textContent(html, IndexFrom(html, ">", i) + 1)
    ELSE IF i + 4 <= Len(html) /\ SubSeq(html, i, i + 4) = <<"&", "a", "m", "p", ";">>
    THEN <<"&">> \o textContent(html, i + 5)
    ELSE <<html[i]>> \o textContent(html, i + 1)

\* SlideSelector.saveEditedText on the component state st, data being
\* slideTextData
saveEditedText(st, data, slideIndex, editedText) ==
    LET originalData == data[slideIndex]
    IN  IF originalData = NoData THEN st
        ELSE LET plainText == textContent(editedText, 1)
                 updatedData ==
                     [originalData[1] EXCEPT
                         !.full_text = plainText,
                         !.text_blocks = <<Block(plainText, 16, FALSE)>>]
             IN  [st EXCEPT !.editedSlideData[slideIndex] = <<updatedData>>,
                            !.editModal = NoModal]

\* the edit button of a slide card
openEditModal(slideIndex) ==
    /\ args.fn = "edit"
    /\ selector' = [selector EXCEPT
           !.editModal = <<[slideIndex |-> slideIndex, isOpen |-> TRUE]>>]
    /\ UNCHANGED <<args, ret, renderer, shell>>
    /\ UNCHANGED appVars

\* the close button of the modal and the editor's onCancel
closeEditModal ==
    /\ args.fn = "edit"
    /\ selector.editModal # NoModal
    /\ selector' = [selector EXCEPT !.editModal = NoModal]
    /\ UNCHANGED <<args, ret, renderer, shell>>
    /\ UNCHANGED appVars

\* onSave={(editedText) => saveEditedText(editModal.slideIndex, editedText)}
editorSaved(editedText) ==
    /\ args.fn = "edit"
    /\ selector.editModal # NoModal
    /\ LET slideIndex == selector.editModal[1].slideIndex
       IN  /\ selector' = saveEditedText(selector, slideTextData, slideIndex, editedText)
           /\ ret' = IF slideTextData[slideIndex] # NoData
                     THEN [ret EXCEPT !.saved[slideIndex] = <<editedText>>]
                     ELSE [ret EXCEPT !.refused = @ \cup {slideIndex}]
    /\ UNCHANGED <<args, renderer, shell>>
    /\ UNCHANGED appVars

InitEdit ==
    /\ InitSelector
    /\ args = [fn |-> "edit"]
    /\ ret = [saved |-> [i \in Slides |-> <<>>], refused |-> {}]

NextEdit ==
    \/ \E index \in Slides : fetchSlideTextResolved(index)
    \/ \E index \in Slides : fetchSlideTextRejected(index)
    \/ \E index \in Slides : openEditModal(index)
    \/ closeEditModal
    \/ \E editedText \in EditorTexts : editorSaved(editedText)
    \/ toggleSelectAll
    \/ convertSelectedSlides
    \/ convertEncoded
    \/ convertDownloaded

SpecEdit == InitEdit /\ [][NextEdit]_vars

\* the plain text of the editor's texts, as the document object model has it
PlainOf(editedText) ==
    CASE editedText = E_Bold -> <<"sa", "rang", " ", "gyo", "hoe">>
      [] editedText = E_Paragraphs -> <<"1", " ", "&", " ", "2", "tae", "cho">>
      [] editedText = E_Break -> <<>>

\* data whose fullText and single text block are the plain text
EditedTo(slideData, plain) ==
    /\ slideData.full_text = plain
    /\ slideData.text_blocks = <<Block(plain, 16, FALSE)>>

\* C30: after saveEditedText(s, t) for a slide s that has data, every later
\* render and export of s uses data whose fullText and single text block
\* are the plain text of t; the original slideTextData and the data of the
\* other slides stay as they were; for a slide without data no edit is
\* recorded.
C30_SavedEditIsUsed ==
    \A s \in Slides :
        /\ slideTextData[s] \in {NoData, <<ServerData(s)>>}
        /\ IF ret.saved[s] = <<>>
           THEN selector.editedSlideData[s] = NoData
           ELSE LET used == getSlideDataForRendering(selector.editedSlideData,
                                                     slideTextData, s)
                IN  /\ used # NoData
                    /\ used[1].slide_index = s
                    /\ EditedTo(used[1], PlainOf(ret.saved[s][1]))
        /\ (/\ conv.canvas # <<>>
            /\ conv.canvas[1].of = s
            /\ conv.editedSlideData = selector.editedSlideData
            /\ ret.saved[s] # <<>>) =>
               LET plain == PlainOf(ret.saved[s][1])
               IN  conv.canvas[1].raster
                       = convertSlide([slide_index |-> s, full_text |-> plain,
                                       text_blocks |-> <<Block(plain, 16, FALSE)>>],
                                      conv.app)

\* a slide with a saved edit is on the export's canvas, and a save was
\* tried for the other slide before its data arrived
C30_Witness ==
    /\ conv.canvas # <<>>
    /\ conv.editedSlideData = selector.editedSlideData
    /\ ret.saved[conv.canvas[1].of] = <<E_Bold>>
    /\ \E s \in ret.refused : s # conv.canvas[1].of /\ ret.saved[s] = <<>>
====
